---- MODULE Spec2Model ----
(***************************************************************************)
(* Model of the markdown-table pipeline of rocketchat-markdown-tables:     *)
(* the line scanner parseMarkdownTable and its row helpers, the TSV        *)
(* normaliser convertTsvToMarkdown and the message handler                 *)
(* executePreMessageSentModify.                                            *)
(*                                                                         *)
(* A JavaScript string is a sequence of one-character strings, so that     *)
(* split, join, trim and replace are computed character by character.      *)
(***************************************************************************)
EXTENDS Integers, Sequences, FiniteSets, TLC

VARIABLES
    text,       \* parseMarkdownTable: the argument `text`
    lines,      \* parseMarkdownTable: `lines = text.split('\n')`
    i,          \* parseMarkdownTable: the scan index `i` (0-based)
    tables,     \* parseMarkdownTable: the list `tables`
    pc,         \* parseMarkdownTable: position of the scan loop
    rline,      \* row helpers: the line handed to the helper
    rres,       \* row helpers: the results computed for rline
    rpc,        \* row helpers: which helpers have run
    ttext,      \* convertTsvToMarkdown: the argument `text`
    tlines,     \* convertTsvToMarkdown: `lines = text.split('\n')`
    ti,         \* convertTsvToMarkdown: the loop index `i`
    result,     \* convertTsvToMarkdown: the list `result`
    inTsvBlock, \* convertTsvToMarkdown: the flag `inTsvBlock`
    tsvLines,   \* convertTsvToMarkdown: the accumulated block `tsvLines`
    tout,       \* convertTsvToMarkdown: the returned string
    tparsed,    \* the regions the caller scans in the returned string
    tpc,        \* convertTsvToMarkdown: position of the loop
    mtext,      \* executePreMessageSentModify: message.text
    env,        \* the settings, the sender's stored records and languages
    processedText, \* executePreMessageSentModify: `processedText`
    mtables,    \* executePreMessageSentModify: `tables`
    mode,       \* executePreMessageSentModify: the renderer branch taken
    showLinks,  \* executePreMessageSentModify: the link flag given to the renderer
    userLang,   \* executePreMessageSentModify: `userLang`
    mk,         \* executePreMessageSentModify: index of the for-of loop
    modifiedText, \* executePreMessageSentModify: `modifiedText`
    btext,      \* the message builder: the text set by setText
    bparseUrls, \* the message builder: the flag set by setParseUrls
    mret,       \* executePreMessageSentModify: what is returned
    mpc,        \* executePreMessageSentModify: position in the handler
    build,      \* which TablePrefsCommand is built: with or without the style verb
    store,      \* the persistence store: the records kept under each user's association
    cmds,       \* TablePrefsCommand.executor: the invocations in flight, one per slot
    overlap,    \* history: two invocations of one user have been in flight together
    lastUpdate, \* history: per user, the prefs object handed to the last saveUserPrefs
    msender,    \* executePreMessageSentModify: message.sender.id
    fin,        \* a function under test: its arguments
    fout,       \* a function under test: what it returned
    fpc         \* a function under test: whether it has run

vars == <<text, lines, i, tables, pc, rline, rres, rpc,
          ttext, tlines, ti, result, inTsvBlock, tsvLines, tout, tparsed, tpc,
          mtext, env, processedText, mtables, mode, showLinks, userLang, mk,
          modifiedText, btext, bparseUrls, mret, mpc,
          build, store, cmds, overlap, lastUpdate, msender, fin, fout, fpc>>

scanVars == <<text, lines, i, tables, pc>>
rowVars == <<rline, rres, rpc>>
tsvVars == <<ttext, tlines, ti, result, inTsvBlock, tsvLines, tout, tparsed, tpc>>
msgVars == <<mtext, env, processedText, mtables, mode, showLinks, userLang, mk,
             modifiedText, btext, bparseUrls, mret, mpc>>
prefsVars == <<build, store, cmds, overlap, lastUpdate, msender>>
fnVars == <<fin, fout, fpc>>

-----------------------------------------------------------------------------
(* Bounds of the explored inputs.                                          *)

MaxLines == 7
MaxRowLen == 6
MaxTsvLines == 5
MaxMsgLines == 3

-----------------------------------------------------------------------------
(* String primitives of the JavaScript runtime.                            *)

NL == "\n"
TAB == "\t"

\* the whitespace String.prototype.trim removes (of the characters modelled)
WhiteSpace == {" ", "\t", "\n"}

BoundedSeq(S, n) == UNION {[1..m -> S] : m \in 0..n}

Includes(s, c) == \E k \in 1..Len(s) : s[k] = c

StartsWith(s, c) == Len(s) > 0 /\ s[1] = c

EndsWith(s, c) == Len(s) > 0 /\ s[Len(s)] = c

RECURSIVE TrimStart(_)
TrimStart(s) ==
    IF Len(s) > 0 /\ s[1] \in WhiteSpace THEN TrimStart(Tail(s)) ELSE s

RECURSIVE TrimEnd(_)
TrimEnd(s) ==
    IF Len(s) > 0 /\ s[Len(s)] \in WhiteSpace
    THEN TrimEnd(SubSeq(s, 1, Len(s) - 1))
    ELSE s

Trim(s) == TrimEnd(TrimStart(s))

\* index of the first occurrence of character c in s, 0 when there is none
FirstIndex(s, c) ==
    IF Includes(s, c)
    THEN CHOOSE k \in 1..Len(s) : s[k] = c /\ \A m \in 1..(k - 1) : s[m] # c
    ELSE 0

\* String.prototype.split with a one-character separator
RECURSIVE SplitOn(_, _)
SplitOn(s, c) ==
    LET p == FirstIndex(s, c)
    IN IF p = 0
       THEN <<s>>
       ELSE <<SubSeq(s, 1, p - 1)>> \o SplitOn(SubSeq(s, p + 1, Len(s)), c)

\* Array.prototype.join
RECURSIVE JoinWith(_, _)
JoinWith(parts, sep) ==
    IF Len(parts) = 0 THEN <<>>
    ELSE IF Len(parts) = 1 THEN parts[1]
    ELSE parts[1] \o sep \o JoinWith(Tail(parts), sep)

\* Array.prototype.slice(0, n)
SliceTo(s, n) == SubSeq(s, 1, IF n < Len(s) THEN n ELSE Len(s))

-----------------------------------------------------------------------------
(* Row helpers of src/lib/tableParser.ts.                                  *)

\* (trimmed.match(/\|/g) || []).length
pipeCount(s) == Cardinality({k \in 1..Len(s) : s[k] = "|"})

isPotentialTableRow(line) ==
    IF line = <<>> \/ ~Includes(line, "|")
    THEN FALSE
    ELSE pipeCount(Trim(line)) >= 1

\* s.replace(/^\|/, '')
StripLeadingPipe(s) == IF StartsWith(s, "|") THEN Tail(s) ELSE s

\* s.replace(/\|$/, '')
StripTrailingPipe(s) == IF EndsWith(s, "|") THEN SubSeq(s, 1, Len(s) - 1) ELSE s

\* the cell test with the dashes made optional
MatchesSeparatorCellNoDash(c) ==
    LET a == IF StartsWith(c, ":") THEN 1 ELSE 0
        b == IF Len(c) > a /\ EndsWith(c, ":") THEN 1 ELSE 0
        dashes == SubSeq(c, 1 + a, Len(c) - b)
    IN \A k \in 1..Len(dashes) : dashes[k] = "-"

\* /^:?-{1,}:?$/.test(c)
MatchesSeparatorCell(c) ==
    LET a == IF StartsWith(c, ":") THEN 1 ELSE 0
        b == IF Len(c) > a /\ EndsWith(c, ":") THEN 1 ELSE 0
        dashes == SubSeq(c, 1 + a, Len(c) - b)
    IN /\ Len(dashes) >= 1
       /\ \A k \in 1..Len(dashes) : dashes[k] = "-"

isSeparatorRow(line) ==
    IF line = <<>> \/ ~Includes(line, "|")
    THEN FALSE
    ELSE LET trimmed == Trim(line)
             cells == SplitOn(StripTrailingPipe(StripLeadingPipe(trimmed)), "|")
         IN \A k \in 1..Len(cells) : MatchesSeparatorCell(Trim(cells[k]))

\* the `cleaned` string of parseTableRow and parseAlignments
StripBoundingPipes(trimmed) ==
    LET c1 == IF StartsWith(trimmed, "|") THEN Tail(trimmed) ELSE trimmed
    IN IF EndsWith(c1, "|") THEN SubSeq(c1, 1, Len(c1) - 1) ELSE c1

parseTableRow(line) ==
    LET cells == SplitOn(StripBoundingPipes(Trim(line)), "|")
    IN [k \in 1..Len(cells) |-> Trim(cells[k])]

\* the colon test with left and right exchanged
alignmentOfSwapped(cell) ==
    LET c == Trim(cell)
        hasLeftColon == StartsWith(c, ":")
        hasRightColon == EndsWith(c, ":")
    IN IF hasLeftColon /\ hasRightColon THEN "center"
       ELSE IF hasRightColon THEN "left"
       ELSE IF hasLeftColon THEN "right"
       ELSE "none"

alignmentOf(cell) ==
    LET c == Trim(cell)
        hasLeftColon == StartsWith(c, ":")
        hasRightColon == EndsWith(c, ":")
    IN IF hasLeftColon /\ hasRightColon THEN "center"
       ELSE IF hasRightColon THEN "right"
       ELSE IF hasLeftColon THEN "left"
       ELSE "none"

parseAlignments(separatorLine) ==
    LET cells == SplitOn(StripBoundingPipes(Trim(separatorLine)), "|")
    IN [k \in 1..Len(cells) |-> alignmentOf(cells[k])]

-----------------------------------------------------------------------------
(* parseMarkdownTable: one iteration of the scan loop as a function of the *)
(* loop state, and the loop itself.  Line indices are 0-based as in the    *)
(* source; LineAt reads lines[k].                                          *)

LineAt(ls, k) == ls[k + 1]

\* lines[k] is undefined or the empty string (`!separatorLine`)
Falsy(ls, k) == IF k >= Len(ls) THEN TRUE ELSE LineAt(ls, k) = <<>>

\* row.push('') until the row is as long as the headers
RECURSIVE PadRow(_, _)
PadRow(row, n) == IF Len(row) < n THEN PadRow(Append(row, <<>>), n) ELSE row

\* the normalisation without the slice
normalizeRowNoSlice(row, headers) == PadRow(row, Len(headers))

normalizeRow(row, headers) == SliceTo(PadRow(row, Len(headers)), Len(headers))

\* the inner while loop: collect data rows from line j on
RECURSIVE collectRows(_, _, _, _)
collectRows(ls, j, headers, rows) ==
    IF j < Len(ls) /\ isPotentialTableRow(LineAt(ls, j))
    THEN collectRows(ls, j + 1, headers,
                     Append(rows, normalizeRow(parseTableRow(LineAt(ls, j)), headers)))
    ELSE [rows |-> rows, j |-> j]

\* the join of the region's lines with the last line left out
rawTextOfShort(ls, k, j) == JoinWith(SubSeq(ls, k + 1, j - 1), <<NL>>)

\* lines.slice(tableStartIndex, j).join('\n')
rawTextOf(ls, k, j) == JoinWith(SubSeq(ls, k + 1, j), <<NL>>)

\* the body of the outer loop once header and separator are accepted
tableAt(ls, k, tbls) ==
    LET headers == parseTableRow(LineAt(ls, k))
        alignments == parseAlignments(LineAt(ls, k + 1))
        got == collectRows(ls, k + 2, headers, <<>>)
    IN [i |-> got.j,
        tables |-> IF Len(got.rows) > 0
                   THEN Append(tbls, [headers |-> headers,
                                      rows |-> got.rows,
                                      rawText |-> rawTextOf(ls, k, got.j),
                                      alignments |-> alignments,
                                      start |-> k,
                                      end |-> got.j])
                   ELSE tbls]

headerRejected(ls, k) == ~isPotentialTableRow(LineAt(ls, k))

\* the separator test reduced to the presence of a next line
separatorRejectedNoTest(ls, k) == Falsy(ls, k + 1)

separatorRejected(ls, k) ==
    IF Falsy(ls, k + 1) THEN TRUE ELSE ~isSeparatorRow(LineAt(ls, k + 1))

\* the scan step staying on a candidate whose separator row is rejected
scanStepStaying(ls, k, tbls) ==
    IF headerRejected(ls, k) THEN [i |-> k + 1, tables |-> tbls]
    ELSE IF separatorRejected(ls, k) THEN [i |-> k, tables |-> tbls]
    ELSE tableAt(ls, k, tbls)

\* the scan step skipping the line after a rejected candidate as well
scanStepSkipTwo(ls, k, tbls) ==
    IF headerRejected(ls, k) THEN [i |-> k + 1, tables |-> tbls]
    ELSE IF separatorRejected(ls, k) THEN [i |-> k + 2, tables |-> tbls]
    ELSE tableAt(ls, k, tbls)

scanStep(ls, k, tbls) ==
    IF headerRejected(ls, k) THEN [i |-> k + 1, tables |-> tbls]
    ELSE IF separatorRejected(ls, k) THEN [i |-> k + 1, tables |-> tbls]
    ELSE tableAt(ls, k, tbls)

RECURSIVE scanFrom(_, _, _)
scanFrom(ls, k, tbls) ==
    IF k < Len(ls)
    THEN LET st == scanStep(ls, k, tbls) IN scanFrom(ls, st.i, st.tables)
    ELSE tbls

parseMarkdownTable(t) == scanFrom(SplitOn(t, NL), 0, <<>>)

-----------------------------------------------------------------------------
(* convertTsvToMarkdown and tsvBlockToMarkdown of src/lib/tableParser.ts.  *)

\* line.trim().length > 0
IsNonBlank(line) == Trim(line) # <<>>

\* line.split('\t').map(cell => cell.trim())
tsvCells(line) ==
    LET cells == SplitOn(line, TAB)
    IN [k \in 1..Len(cells) |-> Trim(cells[k])]

\* '| ' + cells.join(' | ') + ' |'
mdRow(cells) == <<"|", " ">> \o JoinWith(cells, <<" ", "|", " ">>) \o <<" ", "|">>

\* the data rows taken to be all rows, the header included
tsvDataRowsAll(rows) == rows

\* rows.slice(1)
tsvDataRows(rows) == Tail(rows)

tsvBlockToMarkdown(ls) ==
    LET kept == SelectSeq(ls, IsNonBlank)
        rows == [k \in 1..Len(kept) |-> tsvCells(kept[k])]
    IN IF Len(rows) < 1
       THEN JoinWith(ls, <<NL>>)
       ELSE LET headers == rows[1]
                dataRows == tsvDataRows(rows)
                headerLine == mdRow(headers)
                separatorLine == mdRow([k \in 1..Len(headers) |-> <<"-", "-", "-">>])
                dataLines == [k \in 1..Len(dataRows) |->
                                 mdRow(SliceTo(PadRow(dataRows[k], Len(headers)),
                                               Len(headers)))]
            IN JoinWith(<<headerLine, separatorLine>> \o dataLines, <<NL>>)

\* the flush that converts a block of one line as well
flushBlockFromOne(res, inBlock, block) ==
    IF inBlock /\ Len(block) >= 1
    THEN Append(res, tsvBlockToMarkdown(block))
    ELSE res

\* the block handling of the else branch and of the end of the text
flushBlock(res, inBlock, block) ==
    IF inBlock /\ Len(block) >= 2
    THEN Append(res, tsvBlockToMarkdown(block))
    ELSE IF inBlock /\ Len(block) = 1
    THEN Append(res, block[1])
    ELSE res

\* one iteration of the for loop on line `line`
tsvStep(st, line) ==
    IF Includes(line, TAB)
    THEN [result |-> st.result,
          inTsvBlock |-> TRUE,
          tsvLines |-> Append(IF st.inTsvBlock THEN st.tsvLines ELSE <<>>, line)]
    ELSE [result |-> Append(flushBlock(st.result, st.inTsvBlock, st.tsvLines), line),
          inTsvBlock |-> FALSE,
          tsvLines |-> <<>>]

\* the code after the loop
tsvReturn(st) == JoinWith(flushBlock(st.result, st.inTsvBlock, st.tsvLines), <<NL>>)

RECURSIVE tsvLoop(_, _, _)
tsvLoop(ls, k, st) ==
    IF k < Len(ls) THEN tsvLoop(ls, k + 1, tsvStep(st, LineAt(ls, k))) ELSE tsvReturn(st)

convertTsvToMarkdown(t) ==
    tsvLoop(SplitOn(t, NL), 0, [result |-> <<>>, inTsvBlock |-> FALSE, tsvLines |-> <<>>])

-----------------------------------------------------------------------------
(* String operations used by the message handler of                        *)
(* src/MarkdownTablesApp.ts.                                               *)

\* c repeated n times (String.prototype.repeat)
Repeat(c, n) == [k \in 1..n |-> c]

\* String.prototype.indexOf + 1: position of the first occurrence of the
\* non-empty string pat in s, 0 when there is none
IndexOfSub(s, pat) ==
    LET hits == {k \in 1..(Len(s) - Len(pat) + 1) : SubSeq(s, k, k + Len(pat) - 1) = pat}
    IN IF hits = {} THEN 0 ELSE CHOOSE k \in hits : \A m \in hits : k <= m

\* the grave accent and the apostrophe, written by their code points
GRAVE == "u+0060"
APOSTROPHE == "u+0027"

\* GetSubstitution of String.prototype.replace for a string pattern (no
\* capture groups): $$ is a dollar sign, $& the matched text, $ with a
\* grave accent the text before the match, $ with an apostrophe the text
\* after it; any other dollar sign stays as it is
\* position of the first substitution pattern of repl, 0 when there is none
FirstPattern(repl) ==
    LET hits == {k \in 1..(Len(repl) - 1) :
                    repl[k] = "$" /\ repl[k + 1] \in {"$", "&", GRAVE, APOSTROPHE}}
    IN IF hits = {} THEN 0 ELSE CHOOSE k \in hits : \A m \in hits : k <= m

RECURSIVE GetSubstitution(_, _, _, _)
GetSubstitution(repl, matched, before, after) ==
    LET at == FirstPattern(repl)
    IN IF at = 0 THEN repl
       ELSE SubSeq(repl, 1, at - 1)
            \o (CASE repl[at + 1] = "$" -> <<"$">>
                  [] repl[at + 1] = "&" -> matched
                  [] repl[at + 1] = GRAVE -> before
                  [] OTHER -> after)
            \o GetSubstitution(SubSeq(repl, at + 2, Len(repl)), matched, before, after)

\* s.replace(pat, repl) with two strings: the first occurrence of pat is
\* replaced by the substitution of repl
strReplace(s, pat, repl) ==
    LET at == IndexOfSub(s, pat)
        before == SubSeq(s, 1, at - 1)
        after == SubSeq(s, at + Len(pat), Len(s))
    IN IF at = 0 THEN s
       ELSE before \o GetSubstitution(repl, pat, before, after) \o after

\* s.replace(/\n{3,}/g, "\n\n"): of every run of three or more newlines the
\* first two stay, so a newline goes exactly when two newlines precede it
NewlineRun(s, k) == k >= 3 /\ s[k] = NL /\ s[k - 1] = NL /\ s[k - 2] = NL

collapseNewlines(s) ==
    LET Stays(k) == ~NewlineRun(s, k)
        kept == SelectSeq([k \in 1..Len(s) |-> k], Stays)
    IN [j \in 1..Len(kept) |-> s[kept[j]]]

-----------------------------------------------------------------------------
(* Glyph sets.  A box-drawing character is written by its code point.      *)

UNICODE_CHARS ==
    [topLeft |-> "u+250C", topRight |-> "u+2510",
     bottomLeft |-> "u+2514", bottomRight |-> "u+2518",
     horizontal |-> "u+2500", vertical |-> "u+2502",
     teeDown |-> "u+252C", teeUp |-> "u+2534",
     teeRight |-> "u+251C", teeLeft |-> "u+2524", cross |-> "u+253C"]

ASCII_CHARS ==
    [topLeft |-> "+", topRight |-> "+", bottomLeft |-> "+", bottomRight |-> "+",
     horizontal |-> "-", vertical |-> "|",
     teeDown |-> "+", teeUp |-> "+", teeRight |-> "+", teeLeft |-> "+", cross |-> "+"]

-----------------------------------------------------------------------------
(* Display width and padding.                                              *)

\* characters of the emoji ranges of emojiRegex
EmojiChars == {"u+1F600", "u+2705", "u+1F517"}

\* characters outside the basic plane: two UTF-16 code units each
AstralChars == {"u+1F600", "u+1F517", "u+1F000", "u+1D400"}

\* text.length of a one-character string
CodeUnits(c) == IF c \in AstralChars THEN 2 ELSE 1

\* every emoji match adds 2, the text between matches adds its length
RECURSIVE getDisplayWidth(_)
getDisplayWidth(t) ==
    IF Len(t) = 0 THEN 0
    ELSE (IF t[1] \in EmojiChars THEN 2 ELSE CodeUnits(t[1])) + getDisplayWidth(Tail(t))

\* the centring with the larger half of the padding in front
padCellWithCharCeilLeft(t, targetWidth, align, padChar) ==
    LET padding == targetWidth - getDisplayWidth(t)
    IN IF padding <= 0 THEN t
       ELSE IF align = "center"
       THEN Repeat(padChar, (padding + 1) \div 2) \o t \o Repeat(padChar, padding \div 2)
       ELSE IF align = "right"
       THEN Repeat(padChar, padding) \o t
       ELSE t \o Repeat(padChar, padding)

padCellWithChar(t, targetWidth, align, padChar) ==
    LET currentWidth == getDisplayWidth(t)
        padding == targetWidth - currentWidth
    IN IF padding <= 0 THEN t
       ELSE IF align = "center"
       THEN LET left == padding \div 2
                right == padding - left
            IN Repeat(padChar, left) \o t \o Repeat(padChar, right)
       ELSE IF align = "right"
       THEN Repeat(padChar, padding) \o t
       ELSE t \o Repeat(padChar, padding)

padCell(t, targetWidth, align) == padCellWithChar(t, targetWidth, align, " ")

-----------------------------------------------------------------------------
(* Link extraction.  A link is a record [text, url].                       *)

UpperLetters == <<"A", "B", "C", "D", "E", "F", "G", "H", "I", "J", "K", "L", "M",
                  "N", "O", "P", "Q", "R", "S", "T", "U", "V", "W", "X", "Y", "Z">>

LowerLetters == <<"a", "b", "c", "d", "e", "f", "g", "h", "i", "j", "k", "l", "m",
                  "n", "o", "p", "q", "r", "s", "t", "u", "v", "w", "x", "y", "z">>

ToLowerChar(c) ==
    IF \E k \in 1..26 : UpperLetters[k] = c
    THEN LowerLetters[CHOOSE k \in 1..26 : UpperLetters[k] = c]
    ELSE c

\* String.prototype.toLowerCase
ToLowerCase(s) == [k \in 1..Len(s) |-> ToLowerChar(s[k])]

HasPrefix(s, pre) == Len(s) >= Len(pre) /\ SubSeq(s, 1, Len(pre)) = pre

DropPrefix(s, pre) == IF HasPrefix(s, pre) THEN SubSeq(s, Len(pre) + 1, Len(s)) ELSE s

HttpPrefix == <<"h", "t", "t", "p", ":", "/", "/">>
HttpsPrefix == <<"h", "t", "t", "p", "s", ":", "/", "/">>
WwwPrefix == <<"w", "w", "w", ".">>

\* s.replace(/^https?:\/\//, '')
StripScheme(s) ==
    IF HasPrefix(s, HttpsPrefix) THEN DropPrefix(s, HttpsPrefix) ELSE DropPrefix(s, HttpPrefix)

\* s.replace(/\/+$/, '')
RECURSIVE StripTrailingSlashes(_)
StripTrailingSlashes(s) ==
    IF EndsWith(s, "/") THEN StripTrailingSlashes(SubSeq(s, 1, Len(s) - 1)) ELSE s

\* the comparison key without toLowerCase
normalizeUrlKeepingCase(url) ==
    StripTrailingSlashes(DropPrefix(StripScheme(url), WwwPrefix))

normalizeUrlForCompare(url) ==
    StripTrailingSlashes(DropPrefix(StripScheme(ToLowerCase(url)), WwwPrefix))

urlExists(links, url) ==
    \E k \in 1..Len(links) :
       normalizeUrlForCompare(links[k].url) = normalizeUrlForCompare(url)

\* index of the first occurrence of character c in s at or after p, 0 if none
FirstIndexFrom(s, c, p) ==
    LET hits == {k \in p..Len(s) : s[k] = c}
    IN IF hits = {} THEN 0 ELSE CHOOSE k \in hits : \A m \in hits : k <= m

\* a match of /\[([^\]]+)\]\(([^)]+)\)/ that starts at position p of s
mdLinkAt(s, p) ==
    LET close == FirstIndexFrom(s, "]", p + 1)
        paren == IF close = 0 THEN 0 ELSE FirstIndexFrom(s, ")", close + 2)
    IN IF /\ p <= Len(s) /\ s[p] = "["
          /\ close >= p + 2
          /\ close + 1 <= Len(s) /\ s[close + 1] = "("
          /\ paren >= close + 3
       THEN [ok |-> TRUE, text |-> SubSeq(s, p + 1, close - 1),
             url |-> SubSeq(s, close + 2, paren - 1), next |-> paren + 1]
       ELSE [ok |-> FALSE, text |-> <<>>, url |-> <<>>, next |-> p + 1]

\* end of the longest run from position p of characters that are neither
\* white space nor in stop
RECURSIVE UrlBodyEnd(_, _, _)
UrlBodyEnd(s, p, stop) ==
    IF p <= Len(s) /\ s[p] \notin WhiteSpace /\ s[p] \notin stop
    THEN UrlBodyEnd(s, p + 1, stop)
    ELSE p - 1

\* a match of /https?:\/\/[^\s<stop>]+/ that starts at position p of s
bareUrlAt(s, p, stop) ==
    LET rest == SubSeq(s, p, Len(s))
        body == IF HasPrefix(rest, HttpsPrefix) THEN p + Len(HttpsPrefix)
                ELSE IF HasPrefix(rest, HttpPrefix) THEN p + Len(HttpPrefix)
                ELSE 0
        last == IF body = 0 THEN 0 ELSE UrlBodyEnd(s, body, stop)
    IN IF body # 0 /\ last >= body
       THEN [ok |-> TRUE, url |-> SubSeq(s, p, last), next |-> last + 1]
       ELSE [ok |-> FALSE, url |-> <<>>, next |-> p + 1]

\* characters that end the host of a URL, and characters no host may hold
HostEnd == {"/", "\\", "?", "#"}
ForbiddenHostChars == {" ", "<", ">", "[", "]", "^", "|", "%", "$", "&", "*", "_", "(", ")"}

RECURSIVE SkipSlashes(_)
SkipSlashes(s) == IF Len(s) > 0 /\ s[1] \in {"/", "\\"} THEN SkipSlashes(Tail(s)) ELSE s

RECURSIVE UpToHostEnd(_)
UpToHostEnd(s) ==
    IF Len(s) = 0 \/ s[1] \in HostEnd THEN <<>> ELSE <<s[1]>> \o UpToHostEnd(Tail(s))

LastIndex(s, c) ==
    LET hits == {k \in 1..Len(s) : s[k] = c}
    IN IF hits = {} THEN 0 ELSE CHOOSE k \in hits : \A m \in hits : k >= m

\* new URL(url).hostname for an http(s) URL whose host is a name of letters
\* and dots: the authority without user info and port, in lower case;
\* ok is FALSE where the constructor throws
urlHostname(url) ==
    LET authority == UpToHostEnd(SkipSlashes(StripScheme(url)))
        afterUser == SubSeq(authority, LastIndex(authority, "@") + 1, Len(authority))
        colon == LastIndex(afterUser, ":")
        host == ToLowerCase(IF colon = 0 THEN afterUser ELSE SubSeq(afterUser, 1, colon - 1))
        port == IF colon = 0 THEN <<>> ELSE SubSeq(afterUser, colon + 1, Len(afterUser))
    IN [ok |-> /\ Len(host) > 0
               /\ \A k \in 1..Len(host) : host[k] \notin ForbiddenHostChars
               /\ \A k \in 1..Len(port) :
                     port[k] \in {"0", "1", "2", "3", "4", "5", "6", "7", "8", "9"},
        host |-> host]

\* the label of a bare URL: its hostname without a leading www., or the URL
bareUrlLabel(url) ==
    LET h == urlHostname(url)
    IN IF h.ok THEN DropPrefix(h.host, WwwPrefix) ELSE url

addLink(links, label, url) ==
    IF urlExists(links, url) THEN links ELSE Append(links, [text |-> label, url |-> url])

\* text.replace(markdownLinkRegex, ...) of extractLinks, from position p on
RECURSIVE replaceMdLinks(_, _, _, _)
replaceMdLinks(s, p, out, links) ==
    IF p > Len(s) THEN [text |-> out, links |-> links]
    ELSE LET m == mdLinkAt(s, p)
         IN IF m.ok
            THEN replaceMdLinks(s, m.next, out \o m.text, addLink(links, m.text, m.url))
            ELSE replaceMdLinks(s, p + 1, Append(out, s[p]), links)

\* result.replace(plainUrlRegex, ...) of extractLinks: the text is kept
RECURSIVE collectBareUrls(_, _, _, _)
collectBareUrls(s, p, stop, links) ==
    IF p > Len(s) THEN links
    ELSE LET m == bareUrlAt(s, p, stop)
         IN IF m.ok
            THEN collectBareUrls(s, m.next, stop, addLink(links, bareUrlLabel(m.url), m.url))
            ELSE collectBareUrls(s, p + 1, stop, links)

\* extractLinks of createFormattedTable: the text with every markdown link
\* replaced by its label, and the links list after the call
extractLinks(t, links) ==
    LET md == replaceMdLinks(t, 1, <<>>, links)
    IN [text |-> md.text, links |-> collectBareUrls(md.text, 1, {}, md.links)]

\* cells.map(extractLinks) with the links list threaded through
RECURSIVE extractLinksOfCells(_, _, _)
extractLinksOfCells(cells, done, links) ==
    IF Len(cells) = 0 THEN [cells |-> done, links |-> links]
    ELSE LET e == extractLinks(cells[1], links)
         IN extractLinksOfCells(Tail(cells), Append(done, e.text), e.links)

RECURSIVE extractLinksOfRows(_, _, _)
extractLinksOfRows(rows, done, links) ==
    IF Len(rows) = 0 THEN [rows |-> done, links |-> links]
    ELSE LET e == extractLinksOfCells(rows[1], <<>>, links)
         IN extractLinksOfRows(Tail(rows), Append(done, e.cells), e.links)

\* links.filter(first index with the same normalized url)
uniqueLinks(links) ==
    LET keep == {k \in 1..Len(links) :
                    \A m \in 1..(k - 1) :
                       normalizeUrlForCompare(links[m].url) # normalizeUrlForCompare(links[k].url)}
        IsKept(k) == k \in keep
        idx == SelectSeq([k \in 1..Len(links) |-> k], IsKept)
    IN [k \in 1..Len(idx) |-> links[idx[k]]]

-----------------------------------------------------------------------------
(* createFormattedTable: the fenced text table.                            *)

Max(a, b) == IF a > b THEN a ELSE b

\* table.alignments[k] (1-based here), undefined past the end
alignmentAt(table, k) ==
    IF k <= Len(table.alignments) THEN table.alignments[k] ELSE "undefined"

\* the widest display width of column k among the header and the rows
RECURSIVE maxCellWidth(_, _, _)
maxCellWidth(rows, k, acc) ==
    IF Len(rows) = 0 THEN acc
    ELSE maxCellWidth(Tail(rows), k,
                      Max(acc, getDisplayWidth(IF k <= Len(rows[1]) THEN rows[1][k] ELSE <<>>)))

\* the column widths taken from the data rows alone
columnWidthsOfRows(headers, rows) ==
    [k \in 1..Len(headers) |-> maxCellWidth(rows, k, 0)]

columnWidths(headers, rows) ==
    [k \in 1..Len(headers) |-> maxCellWidth(rows, k, getDisplayWidth(headers[k]))]

FENCE == <<GRAVE, GRAVE, GRAVE>>

\* the link marker in front of a link line
LINK_MARK == "u+1F517"

\* `<mark> [text](url)`
linkLine(link) ==
    <<LINK_MARK, " ", "[">> \o link.text \o <<"]", "(">> \o link.url \o <<")">>

\* chars.vertical + cells.join(chars.vertical) + chars.vertical
tableLine(table, chars, cells, colWidths) ==
    LET padded == [k \in 1..Len(cells) |->
                      <<" ">> \o padCell(cells[k],
                                         IF k <= Len(colWidths) THEN colWidths[k] ELSE 0,
                                         alignmentAt(table, k)) \o <<" ">>]
    IN <<chars.vertical>> \o JoinWith(padded, <<chars.vertical>>) \o <<chars.vertical>>

\* the lines of the table joined by newlines, from the processed cells, the
\* links found in them and the column widths
formattedLines(table, chars, showLinksBelow, processedHeaders, processedRows, links, colWidths, separatorParts) ==
    LET topBorder == <<chars.topLeft>> \o JoinWith(separatorParts, <<chars.teeDown>>)
                        \o <<chars.topRight>>
        headerSeparator == <<chars.teeRight>> \o JoinWith(separatorParts, <<chars.cross>>)
                              \o <<chars.teeLeft>>
        bottomBorder == <<chars.bottomLeft>> \o JoinWith(separatorParts, <<chars.teeUp>>)
                           \o <<chars.bottomRight>>
        headerLine == tableLine(table, chars, processedHeaders, colWidths)
        rowLines == [k \in 1..Len(processedRows) |->
                        tableLine(table, chars, processedRows[k], colWidths)]
    IN JoinWith(<<FENCE, topBorder, headerLine, headerSeparator>> \o rowLines
                   \o <<bottomBorder, FENCE>>
                   \o (IF showLinksBelow /\ Len(links) > 0
                       THEN <<<<>>>> \o [k \in 1..Len(links) |-> linkLine(links[k])]
                       ELSE <<>>),
                <<NL>>)

\* the separator parts with one part too many
formattedWithWidthsExtraPart(table, chars, showLinksBelow, processedHeaders, processedRows, links, colWidths) ==
    formattedLines(table, chars, showLinksBelow, processedHeaders, processedRows, links,
                   colWidths,
                   [k \in 1..(Len(colWidths) + 1) |->
                       Repeat(chars.horizontal,
                              (IF k <= Len(colWidths) THEN colWidths[k] ELSE 0) + 2)])

\* colWidths and separatorParts of the processed cells
formattedWithWidths(table, chars, showLinksBelow, processedHeaders, processedRows, links, colWidths) ==
    formattedLines(table, chars, showLinksBelow, processedHeaders, processedRows, links,
                   colWidths,
                   [k \in 1..Len(colWidths) |-> Repeat(chars.horizontal, colWidths[k] + 2)])

\* processedHeaders is hs.cells, processedRows is rs.rows, and links is the
\* list both maps have filled, made unique
formattedProcessed(table, chars, showLinksBelow, hs, rs) ==
    formattedWithWidths(table, chars, showLinksBelow, hs.cells, rs.rows,
                        uniqueLinks(rs.links), columnWidths(hs.cells, rs.rows))

\* the rows are processed after the headers, into the same links list
formattedAfterHeaders(table, chars, showLinksBelow, hs) ==
    formattedProcessed(table, chars, showLinksBelow, hs,
                       extractLinksOfRows(table.rows, <<>>, hs.links))

createFormattedTable(table, chars, showLinksBelow) ==
    formattedAfterHeaders(table, chars, showLinksBelow,
                          extractLinksOfCells(table.headers, <<>>, <<>>))

-----------------------------------------------------------------------------
(* parseFormattedText: a cell as runs of plain, bold, italic and code      *)
(* text.                                                                    *)

\* a run of parseFormattedText
Run(t, kind) ==
    [text |-> t, bold |-> kind = "bold", italic |-> kind = "italic", code |-> kind = "code"]

NoSpan == [ok |-> FALSE, kind |-> "plain", text |-> <<>>, next |-> 0]

\* a match at position p of d d (.+?) d d, for d one of '*' and '_': the
\* shortest content of one or more characters other than a newline that the
\* doubled delimiter follows
doubleSpanAt(s, p, d) ==
    LET ends == {q \in (p + 3)..(Len(s) - 1) :
                    /\ s[q] = d /\ s[q + 1] = d
                    /\ \A k \in (p + 2)..(q - 1) : s[k] # NL}
    IN IF p + 1 <= Len(s) /\ s[p] = d /\ s[p + 1] = d /\ ends # {}
       THEN LET q == CHOOSE e \in ends : \A o \in ends : e <= o
            IN [ok |-> TRUE, kind |-> "bold", text |-> SubSeq(s, p + 2, q - 1), next |-> q + 2]
       ELSE NoSpan

\* a match at position p of (?<!d) d ([^d]+) d (?!d), for d one of '*' and
\* '_': the content runs to the next d, which no d follows, and no d stands
\* in front of the opening one
singleSpanAt(s, p, d) ==
    LET q == FirstIndexFrom(s, d, p + 1)
    IN IF /\ p <= Len(s) /\ s[p] = d
          /\ (p > 1 => s[p - 1] # d)
          /\ q >= p + 2
          /\ (q < Len(s) => s[q + 1] # d)
       THEN [ok |-> TRUE, kind |-> "italic", text |-> SubSeq(s, p + 1, q - 1), next |-> q + 1]
       ELSE NoSpan

\* a match at position p of a code span: one or more characters other than
\* the grave accent between two grave accents
codeSpanAt(s, p) ==
    LET q == FirstIndexFrom(s, GRAVE, p + 1)
    IN IF p <= Len(s) /\ s[p] = GRAVE /\ q >= p + 2
       THEN [ok |-> TRUE, kind |-> "code", text |-> SubSeq(s, p + 1, q - 1), next |-> q + 1]
       ELSE NoSpan

\* formatRegex at position p: the first alternative that matches there
formatAt(s, p) ==
    IF doubleSpanAt(s, p, "*").ok THEN doubleSpanAt(s, p, "*")
    ELSE IF doubleSpanAt(s, p, "_").ok THEN doubleSpanAt(s, p, "_")
    ELSE IF singleSpanAt(s, p, "*").ok THEN singleSpanAt(s, p, "*")
    ELSE IF singleSpanAt(s, p, "_").ok THEN singleSpanAt(s, p, "_")
    ELSE codeSpanAt(s, p)

\* the loop over formatRegex.exec(processed): the search is at position p,
\* and lastIndex characters (counted from 1 here) are already in segments
\* the loop without the text in front of a match
RECURSIVE formatSegmentsNoGap(_, _, _, _)
formatSegmentsNoGap(s, p, lastIndex, segments) ==
    IF p > Len(s)
    THEN IF lastIndex <= Len(s)
         THEN Append(segments, Run(SubSeq(s, lastIndex, Len(s)), "plain"))
         ELSE segments
    ELSE LET m == formatAt(s, p)
         IN IF m.ok
            THEN formatSegmentsNoGap(s, m.next, m.next, Append(segments, Run(m.text, m.kind)))
            ELSE formatSegmentsNoGap(s, p + 1, lastIndex, segments)

RECURSIVE formatSegments(_, _, _, _)
formatSegments(s, p, lastIndex, segments) ==
    IF p > Len(s)
    THEN IF lastIndex <= Len(s)
         THEN Append(segments, Run(SubSeq(s, lastIndex, Len(s)), "plain"))
         ELSE segments
    ELSE LET m == formatAt(s, p)
         IN IF m.ok
            THEN formatSegments(s, m.next, m.next,
                                Append(IF p > lastIndex
                                       THEN Append(segments,
                                                   Run(SubSeq(s, lastIndex, p - 1), "plain"))
                                       ELSE segments,
                                       Run(m.text, m.kind)))
            ELSE formatSegments(s, p + 1, lastIndex, segments)

\* the segments of the text after its markdown links are replaced by their
\* labels; one plain segment of the whole text when there is none
segmentsOfProcessed(processed, segments) ==
    IF Len(segments) = 0 THEN <<Run(processed, "plain")>> ELSE segments

parseFormattedText(t) ==
    segmentsOfProcessed(replaceMdLinks(t, 1, <<>>, <<>>).text,
                        formatSegments(replaceMdLinks(t, 1, <<>>, <<>>).text, 1, 1, <<>>))

-----------------------------------------------------------------------------
(* createCardText: the sizes of the image.                                 *)

\* const pad = 10; const fs = 14; const rh = fs + pad * 2 + 4
pad == 10
fs == 14
rh == fs + pad * 2 + 4

\* text.length: the number of UTF-16 code units
RECURSIVE stringLength(_)
stringLength(t) == IF Len(t) = 0 THEN 0 ELSE CodeUnits(t[1]) + stringLength(Tail(t))

\* segments.map(s => s.text).join('')
RECURSIVE plainTextOf(_)
plainTextOf(segments) ==
    IF Len(segments) = 0 THEN <<>> ELSE segments[1].text \o plainTextOf(Tail(segments))

\* the longest plain text of column k among the header and the rows
RECURSIVE maxPlainLength(_, _, _)
maxPlainLength(rows, k, maxLen) ==
    IF Len(rows) = 0 THEN maxLen
    ELSE maxPlainLength(Tail(rows), k,
                        Max(maxLen,
                            IF k <= Len(rows[1])
                            THEN stringLength(plainTextOf(parseFormattedText(rows[1][k])))
                            ELSE 0))

\* cw with the padding added to the larger of the text width and 80
cwPaddedAfter(table) ==
    [k \in 1..Len(table.headers) |->
        Max(maxPlainLength(table.rows, k,
                           stringLength(plainTextOf(parseFormattedText(table.headers[k])))) * 9,
            80) + pad * 2]

\* cw: the pixel width of every column
cw(table) ==
    [k \in 1..Len(table.headers) |->
        Max(maxPlainLength(table.rows, k,
                           stringLength(plainTextOf(parseFormattedText(table.headers[k])))) * 9
               + pad * 2,
            80)]

\* tw and th: the width and the height of the image
RECURSIVE tw(_)
tw(widths) == IF Len(widths) = 0 THEN 0 ELSE widths[1] + tw(Tail(widths))

th(table) == rh * (Len(table.rows) + 1)

-----------------------------------------------------------------------------
(* createCardText: the link list and the image reference.                  *)

\* the links of one cell: bare URLs first, then markdown links whose url
\* does not begin with '#'
RECURSIVE collectCardMdLinks(_, _, _)
collectCardMdLinks(s, p, links) ==
    IF p > Len(s) THEN links
    ELSE LET m == mdLinkAt(s, p)
         IN IF m.ok
            THEN collectCardMdLinks(s, m.next,
                                    IF StartsWith(m.url, "#") \/ m.url = <<>>
                                    THEN links
                                    ELSE addLink(links, m.text, m.url))
            ELSE collectCardMdLinks(s, p + 1, links)

cardLinksOfCell(cell, links) ==
    IF cell = <<>> THEN links
    ELSE collectCardMdLinks(cell, 1, collectBareUrls(cell, 1, {"]", ")"}, links))

RECURSIVE cardLinksOfCells(_, _)
cardLinksOfCells(cells, links) ==
    IF Len(cells) = 0 THEN links
    ELSE cardLinksOfCells(Tail(cells), cardLinksOfCell(cells[1], links))

RECURSIVE cardLinksOfRows(_, _)
cardLinksOfRows(rows, links) ==
    IF Len(rows) = 0 THEN links
    ELSE cardLinksOfRows(Tail(rows), cardLinksOfCells(rows[1], links))

\* languages getHelpText has texts for
HelpLanguages == {"sv", "en", "de", "fr", "es", "pt", "nl", "it", "ru", "ja", "zh"}

\* lang.split('-')[0].toLowerCase(), for the language codes modelled
baseLanguage(lang) ==
    CASE lang = "sv-SE" -> "sv"
      [] lang = "DE" -> "de"
      [] OTHER -> lang

\* the help text as one symbol per language and variant
getHelpText(lang, showLinksBelow) ==
    LET langTexts == IF baseLanguage(lang) \in HelpLanguages THEN baseLanguage(lang) ELSE "en"
    IN <<"help:" \o langTexts \o (IF showLinksBelow THEN ":on" ELSE ":off")>>

\* the image reference: the base64 text of the svg drawn for the table is
\* one symbol that names the table it was drawn for
imageReference(table) ==
    <<"![Table](", "data:image/svg+xml;base64,",
      ToString(<<table.headers, table.rows, table.alignments>>), ")">>

\* the heading of the link list; its a-umlaut is written by its code point
LINKS_HEADING ==
    <<"*", "*", "L", "u+00E4", "n", "k", "a", "r", " ", "i", " ",
      "t", "a", "b", "e", "l", "l", "e", "n", ":", "*", "*">>

\* `\n- [text](url)`
cardLinkLine(link) ==
    <<NL, "-", " ", "[">> \o link.text \o <<"]", "(">> \o link.url \o <<")">>

\* the card text with the image reference in front of the link list
createCardTextImageFirst(table, showLinksBelow, lang) ==
    LET u == uniqueLinks(cardLinksOfRows(table.rows, <<>>))
    IN imageReference(table)
          \o (IF Len(u) > 0 /\ showLinksBelow
              THEN <<NL, NL>> \o LINKS_HEADING
                      \o JoinWith([k \in 1..Len(u) |-> cardLinkLine(u[k])], <<>>)
                      \o <<NL, NL>>
                      \o <<"_">> \o getHelpText(lang, showLinksBelow) \o <<"_">>
              ELSE <<>>)

createCardText(table, showLinksBelow, lang) ==
    LET links == cardLinksOfRows(table.rows, <<>>)
        u == uniqueLinks(links)
        linkPart == IF Len(links) > 0 /\ showLinksBelow
                    THEN LINKS_HEADING
                            \o JoinWith([k \in 1..Len(u) |-> cardLinkLine(u[k])], <<>>)
                            \o <<NL, NL>>
                            \o <<"_">> \o getHelpText(lang, showLinksBelow) \o <<"_", NL, NL>>
                    ELSE <<>>
    IN linkPart \o imageReference(table)

-----------------------------------------------------------------------------
(* Inputs.                                                                 *)

\* lines a scanned text is made of: a blank line, rows of one and of two
\* cells, and a separator row of one segment
ScanLines == { <<>>, <<"|", "a">>, <<"a", "|", "b">>, <<"|", "-">> }

ScanTexts == { JoinWith(ls, <<NL>>) : ls \in BoundedSeq(ScanLines, MaxLines) }

RowAlphabet == {"|", "-", ":", " ", "a"}

RowLines == BoundedSeq(RowAlphabet, MaxRowLen)

\* lines a pasted text is made of: a plain line, a blank line, rows of two
\* and of three tab-separated cells, a row of empty cells and a row with a
\* '|' inside a cell
TsvInputLines ==
    { <<"x">>, <<>>, <<"a", TAB, "b">>, <<"c", TAB, " ", "d", TAB, "e">>,
      <<TAB>>, <<"p", "|", "q", TAB, "r">> }

\* pipe tables of one to three lines whose cells hold a tab
PipeTabLines == { <<"|", "a", TAB, "b", "|">>, <<"|", "-", TAB, "|">>, <<"c", TAB, "|">> }

PipeTabTexts ==
    { JoinWith(ls, <<NL>>) :
         ls \in [1..1 -> PipeTabLines] \cup [1..2 -> PipeTabLines] \cup [1..3 -> PipeTabLines] }

TsvTexts ==
    { JoinWith(ls, <<NL>>) : ls \in BoundedSeq(TsvInputLines, MaxTsvLines) } \cup PipeTabTexts

\* lines a message is made of: a blank line, prose, rows, a separator, a
\* row whose cell is a replacement pattern, a row with a markdown link and
\* a pasted tab-separated line
MsgLines ==
    { <<>>, <<"x">>, <<"|", "a">>, <<"|", "-">>, <<"|", "$", "&">>,
      <<"|", "[", "a", "]", "(", "b", ")">>, <<"a", TAB, "b">> }

\* small tables, and the gaps put between two of them
MsgRegions ==
    { << <<"|", "a">>, <<"|", "-">>, <<"|", "a">> >>,
      << <<"|", "b">>, <<"|", ":", "-", ":">>, <<"|", "a", "|", "a">> >> }

MsgGaps == { << <<>> >>, << <<>>, <<>>, <<>> >>, << <<"x">> >> }

\* a table whose text rendering holds the lines of the table after it
NestedRegionsText ==
    JoinWith(<< <<"|", "A">>, <<"|", "-">>, <<"|", "B">>, <<"|", "-", "-", "-">>,
                <<"|", "C">>, <<>>,
                <<"|", " ", "B", " ", " ", " ", "|">>,
                <<"|", " ", "-", "-", "-", " ", "|">>,
                <<"|", " ", "C", " ", " ", " ", "|">> >>, <<NL>>)

\* a pasted block of a header and a line of tabs alone, between blanks and
\* followed by three newlines: the block becomes a header and a separator
\* row, which is no table
HeaderOnlyTsvText ==
    JoinWith(<< <<" ", "a", TAB, "b">>, <<TAB>>, <<>>, <<>>, <<"x", " ">> >>, <<NL>>)

MsgTexts ==
    { JoinWith(ls, <<NL>>) : ls \in BoundedSeq(MsgLines, MaxMsgLines) }
       \cup { JoinWith(r1 \o g \o r2, <<NL>>) : r1 \in MsgRegions, g \in MsgGaps, r2 \in MsgRegions }
       \cup { NestedRegionsText, HeaderOnlyTsvText }

\* the admin settings, the records stored for the sender and the languages:
\* a text style with each setting of the links and of the previews, and the
\* cards style with each source of the preference and of the language
TextEnv(st, sl, dp) ==
    [table_style |-> st, show_links_below |-> sl, disable_link_previews |-> dp,
     default_show_links_below |-> "true", default_language |-> "auto",
     senderLanguage |-> "undefined", serverLanguage |-> "sv-SE", records |-> <<>>]

CardsEnv(ds, dl, ul, rs) ==
    [table_style |-> "cards", show_links_below |-> "true", disable_link_previews |-> "true",
     default_show_links_below |-> ds, default_language |-> dl,
     senderLanguage |-> ul, serverLanguage |-> "sv-SE", records |-> rs]

MsgEnvs ==
    { TextEnv(st, sl, "true") : st \in {"unicode", "ascii", "undefined"},
                                sl \in {"true", "false"} }
    \cup { TextEnv("unicode", "true", dp) : dp \in {"false", "undefined"} }
    \cup { CardsEnv(ds, "auto", "undefined", rs) :
              ds \in {"true", "false"},
              rs \in {<<>>, <<[showLinksBelow |-> FALSE]>>, <<[showLinksBelow |-> TRUE]>>} }
    \cup { CardsEnv("true", dl, ul, <<>>) : dl \in {"auto", "de"}, ul \in {"undefined", "fr"} }

-----------------------------------------------------------------------------
(* Specification Spec: parseMarkdownTable run on a text, one loop          *)
(* iteration per step.                                                     *)

IdleScan ==
    /\ text = <<>>
    /\ lines = <<>>
    /\ i = 0
    /\ tables = <<>>
    /\ pc = "idle"

IdleRow ==
    /\ rline = <<>>
    /\ rres = [sep |-> FALSE]
    /\ rpc = "idle"

IdleTsv ==
    /\ ttext = <<>>
    /\ tlines = <<>>
    /\ ti = 0
    /\ result = <<>>
    /\ inTsvBlock = FALSE
    /\ tsvLines = <<>>
    /\ tout = <<>>
    /\ tparsed = <<>>
    /\ tpc = "idle"

IdleMsg ==
    /\ mtext = <<>>
    /\ env = [table_style |-> "unicode"]
    /\ processedText = <<>>
    /\ mtables = <<>>
    /\ mode = "none"
    /\ showLinks = FALSE
    /\ userLang = "en"
    /\ mk = 0
    /\ modifiedText = <<>>
    /\ btext = <<>>
    /\ bparseUrls = "unset"
    /\ mret = "none"
    /\ mpc = "idle"

\* the users whose records the store keeps, and the command invocations that
\* may be in flight together
Users == {"u1", "u2"}
Slots == {1, 2}

\* no invocation in the slot
IdleCmd == [pc |-> "idle", user |-> "u1", args |-> <<>>, prefs |-> [none |-> TRUE],
            wrote |-> FALSE, notice |-> <<>>]

IdlePrefs ==
    /\ build = "links"
    /\ store = [u \in Users |-> <<>>]
    /\ cmds = [s \in Slots |-> IdleCmd]
    /\ overlap = FALSE
    /\ lastUpdate = [u \in Users |-> [none |-> TRUE]]
    /\ msender = "u1"

IdleFn ==
    /\ fin = <<>>
    /\ fout = <<>>
    /\ fpc = "idle"

Init ==
    /\ IdlePrefs
    /\ IdleFn
    /\ text \in ScanTexts
    /\ lines = <<>>
    /\ i = 0
    /\ tables = <<>>
    /\ pc = "start"
    /\ IdleRow
    /\ IdleTsv
    /\ IdleMsg

\* const tables = []; const lines = text.split('\n'); let i = 0
ScanStart ==
    /\ pc = "start"
    /\ lines' = SplitOn(text, NL)
    /\ i' = 0
    /\ tables' = <<>>
    /\ pc' = "scan"
    /\ UNCHANGED <<text, rowVars, tsvVars, msgVars, prefsVars, fnVars>>

\* if (!isPotentialTableRow(headerLine)) { i++; continue; }
ScanSkipHeader ==
    /\ pc = "scan"
    /\ i < Len(lines)
    /\ headerRejected(lines, i)
    /\ i' = scanStep(lines, i, tables).i
    /\ UNCHANGED <<text, lines, tables, pc, rowVars, tsvVars, msgVars, prefsVars, fnVars>>

\* if (!separatorLine || !isSeparatorRow(separatorLine)) { i++; continue; }
ScanSkipSeparator ==
    /\ pc = "scan"
    /\ i < Len(lines)
    /\ ~headerRejected(lines, i)
    /\ separatorRejected(lines, i)
    /\ i' = scanStep(lines, i, tables).i
    /\ UNCHANGED <<text, lines, tables, pc, rowVars, tsvVars, msgVars, prefsVars, fnVars>>

\* header and separator accepted: collect the rows, push the table, i = j
ScanTable ==
    /\ pc = "scan"
    /\ i < Len(lines)
    /\ ~headerRejected(lines, i)
    /\ ~separatorRejected(lines, i)
    /\ i' = scanStep(lines, i, tables).i
    /\ tables' = scanStep(lines, i, tables).tables
    /\ UNCHANGED <<text, lines, pc, rowVars, tsvVars, msgVars, prefsVars, fnVars>>

\* the loop condition fails: return tables
ScanReturn ==
    /\ pc = "scan"
    /\ i >= Len(lines)
    /\ pc' = "done"
    /\ UNCHANGED <<text, lines, i, tables, rowVars, tsvVars, msgVars, prefsVars, fnVars>>

Next ==
    \/ ScanStart
    \/ ScanSkipHeader
    \/ ScanSkipSeparator
    \/ ScanTable
    \/ ScanReturn

Spec == Init /\ [][Next]_vars

-----------------------------------------------------------------------------
(* Specification SpecRow: the row helpers applied to one line.             *)

InitRow ==
    /\ IdlePrefs
    /\ IdleFn
    /\ IdleScan
    /\ IdleTsv
    /\ IdleMsg
    /\ rline \in RowLines
    /\ rres = [sep |-> FALSE]
    /\ rpc = "classify"

\* isPotentialTableRow(line) and isSeparatorRow(line)
RowClassify ==
    /\ rpc = "classify"
    /\ rres' = [candidate |-> isPotentialTableRow(rline),
                sep |-> isSeparatorRow(rline)]
    /\ rpc' = "classified"
    /\ UNCHANGED <<rline, scanVars, tsvVars, msgVars, prefsVars, fnVars>>

\* parseTableRow(headerLine) on a candidate row
RowParseCells ==
    /\ rpc = "classified"
    /\ rres.candidate
    /\ ~rres.sep
    /\ rres' = [candidate |-> TRUE, sep |-> FALSE, cells |-> parseTableRow(rline)]
    /\ rpc' = "parsed"
    /\ UNCHANGED <<rline, scanVars, tsvVars, msgVars, prefsVars, fnVars>>

\* parseAlignments(separatorLine) on an accepted separator row
RowParseAlignments ==
    /\ rpc = "classified"
    /\ rres.sep
    /\ rres' = [candidate |-> rres.candidate, sep |-> TRUE,
                cells |-> parseTableRow(rline),
                alignments |-> parseAlignments(rline)]
    /\ rpc' = "parsed"
    /\ UNCHANGED <<rline, scanVars, tsvVars, msgVars, prefsVars, fnVars>>

NextRow ==
    \/ RowClassify
    \/ RowParseCells
    \/ RowParseAlignments

SpecRow == InitRow /\ [][NextRow]_vars

-----------------------------------------------------------------------------
(* Specification SpecTsv: convertTsvToMarkdown run on a text, one loop     *)
(* iteration per step, followed by the caller's scan of the result.        *)

InitTsv ==
    /\ IdlePrefs
    /\ IdleFn
    /\ IdleScan
    /\ IdleRow
    /\ IdleMsg
    /\ ttext \in TsvTexts
    /\ tlines = <<>>
    /\ ti = 0
    /\ result = <<>>
    /\ inTsvBlock = FALSE
    /\ tsvLines = <<>>
    /\ tout = <<>>
    /\ tparsed = <<>>
    /\ tpc = "start"

tsvState == [result |-> result, inTsvBlock |-> inTsvBlock, tsvLines |-> tsvLines]

\* const lines = text.split('\n'); const result = []; inTsvBlock = false
TsvStart ==
    /\ tpc = "start"
    /\ tlines' = SplitOn(ttext, NL)
    /\ ti' = 0
    /\ result' = <<>>
    /\ inTsvBlock' = FALSE
    /\ tsvLines' = <<>>
    /\ tpc' = "loop"
    /\ UNCHANGED <<ttext, tout, tparsed, scanVars, rowVars, msgVars, prefsVars, fnVars>>

\* loop body, if (hasTab) branch
TsvTabLine ==
    /\ tpc = "loop"
    /\ ti < Len(tlines)
    /\ Includes(LineAt(tlines, ti), TAB)
    /\ LET st == tsvStep(tsvState, LineAt(tlines, ti))
       IN /\ result' = st.result
          /\ inTsvBlock' = st.inTsvBlock
          /\ tsvLines' = st.tsvLines
    /\ ti' = ti + 1
    /\ UNCHANGED <<ttext, tlines, tout, tparsed, tpc, scanVars, rowVars, msgVars, prefsVars, fnVars>>

\* loop body, else branch
TsvPlainLine ==
    /\ tpc = "loop"
    /\ ti < Len(tlines)
    /\ ~Includes(LineAt(tlines, ti), TAB)
    /\ LET st == tsvStep(tsvState, LineAt(tlines, ti))
       IN /\ result' = st.result
          /\ inTsvBlock' = st.inTsvBlock
          /\ tsvLines' = st.tsvLines
    /\ ti' = ti + 1
    /\ UNCHANGED <<ttext, tlines, tout, tparsed, tpc, scanVars, rowVars, msgVars, prefsVars, fnVars>>

\* the block at the end of the text, and return result.join('\n')
TsvReturn ==
    /\ tpc = "loop"
    /\ ti >= Len(tlines)
    /\ result' = flushBlock(result, inTsvBlock, tsvLines)
    /\ tout' = tsvReturn(tsvState)
    /\ tpc' = "converted"
    /\ UNCHANGED <<ttext, tlines, ti, inTsvBlock, tsvLines, tparsed, scanVars, rowVars, msgVars, prefsVars, fnVars>>

\* the caller: const tables = parseMarkdownTable(processedText)
TsvScan ==
    /\ tpc = "converted"
    /\ tparsed' = parseMarkdownTable(tout)
    /\ tpc' = "done"
    /\ UNCHANGED <<ttext, tlines, ti, result, inTsvBlock, tsvLines, tout, scanVars, rowVars, msgVars, prefsVars, fnVars>>

NextTsv ==
    \/ TsvStart
    \/ TsvTabLine
    \/ TsvPlainLine
    \/ TsvReturn
    \/ TsvScan

SpecTsv == InitTsv /\ [][NextTsv]_vars

-----------------------------------------------------------------------------
(* Specification SpecMsg: executePreMessageSentModify on one message.      *)

InitMsg ==
    /\ IdlePrefs
    /\ IdleFn
    /\ IdleScan
    /\ IdleRow
    /\ IdleTsv
    /\ mtext \in MsgTexts
    /\ env \in MsgEnvs
    /\ processedText = <<>>
    /\ mtables = <<>>
    /\ mode = "none"
    /\ showLinks = FALSE
    /\ userLang = "en"
    /\ mk = 0
    /\ modifiedText = <<>>
    /\ btext = <<>>
    /\ bparseUrls = "unset"
    /\ mret = "none"
    /\ mpc = "start"

\* processedText of lines 136-139
normalizedText(t) == IF Includes(t, TAB) THEN convertTsvToMarkdown(t) ELSE t

\* if (!message.text) return message
MsgEmpty ==
    /\ mpc = "start"
    /\ mtext = <<>>
    /\ mret' = "message"
    /\ mpc' = "returned"
    /\ UNCHANGED <<mtext, env, processedText, mtables, mode, showLinks, userLang, mk,
                   modifiedText, btext, bparseUrls, scanVars, rowVars, tsvVars, prefsVars, fnVars>>

\* no table in the normalized text, and the normalized text set as the text
\* of the message
MsgNoTablesSettingText ==
    /\ mpc = "start"
    /\ mtext # <<>>
    /\ parseMarkdownTable(normalizedText(mtext)) = <<>>
    /\ processedText' = normalizedText(mtext)
    /\ mtables' = <<>>
    /\ btext' = normalizedText(mtext)
    /\ mret' = "builder"
    /\ mpc' = "returned"
    /\ UNCHANGED <<mtext, env, mode, showLinks, userLang, mk,
                   modifiedText, bparseUrls, scanVars, rowVars, tsvVars, prefsVars, fnVars>>

\* no table in the normalized text: return message
MsgNoTables ==
    /\ mpc = "start"
    /\ mtext # <<>>
    /\ parseMarkdownTable(normalizedText(mtext)) = <<>>
    /\ processedText' = normalizedText(mtext)
    /\ mtables' = <<>>
    /\ mret' = "message"
    /\ mpc' = "returned"
    /\ UNCHANGED <<mtext, env, mode, showLinks, userLang, mk,
                   modifiedText, btext, bparseUrls, scanVars, rowVars, tsvVars, prefsVars, fnVars>>

\* tables found: go on to read the settings
MsgTablesFound ==
    /\ mpc = "start"
    /\ mtext # <<>>
    /\ parseMarkdownTable(normalizedText(mtext)) # <<>>
    /\ processedText' = normalizedText(mtext)
    /\ mtables' = parseMarkdownTable(normalizedText(mtext))
    /\ mpc' = "settings"
    /\ UNCHANGED <<mtext, env, mode, showLinks, userLang, mk,
                   modifiedText, btext, bparseUrls, mret, scanVars, rowVars, tsvVars, prefsVars, fnVars>>

\* if (disableLinkPreviews !== false) builder.setParseUrls(false)
parseUrlsAfterSettings ==
    IF env.disable_link_previews # "false" THEN "false" ELSE bparseUrls

\* getUserPrefs(read, userId, defaultShowLinks).showLinksBelow
userShowLinksBelow ==
    IF Len(env.records) > 0
    THEN env.records[1].showLinksBelow
    ELSE env.default_show_links_below # "false"

\* the language of the help text, lines 164-184
resolvedLanguage ==
    IF env.default_language \notin {"undefined", "auto"} THEN env.default_language
    ELSE IF env.senderLanguage # "undefined" THEN env.senderLanguage
    ELSE IF env.serverLanguage # "undefined" THEN env.serverLanguage
    ELSE "en"

\* settings read, tableStyle === 'cards'
MsgCardsMode ==
    /\ mpc = "settings"
    /\ env.table_style = "cards"
    /\ bparseUrls' = parseUrlsAfterSettings
    /\ mode' = "cards"
    /\ showLinks' = userShowLinksBelow
    /\ userLang' = resolvedLanguage
    /\ modifiedText' = processedText
    /\ mk' = 0
    /\ mpc' = "replace"
    /\ UNCHANGED <<mtext, env, processedText, mtables, btext, mret,
                   scanVars, rowVars, tsvVars, prefsVars, fnVars>>

\* settings read, any other tableStyle: ASCII or unicode glyphs
MsgTextMode ==
    /\ mpc = "settings"
    /\ env.table_style # "cards"
    /\ bparseUrls' = parseUrlsAfterSettings
    /\ mode' = IF env.table_style = "ascii" THEN "ascii" ELSE "unicode"
    /\ showLinks' = (env.show_links_below # "false")
    /\ modifiedText' = processedText
    /\ mk' = 0
    /\ mpc' = "replace"
    /\ UNCHANGED <<mtext, env, processedText, mtables, userLang, btext, mret,
                   scanVars, rowVars, tsvVars, prefsVars, fnVars>>

\* the string the renderer of the branch returns for a table
renderedTable(table) ==
    IF mode = "cards"
    THEN createCardText(table, showLinks, userLang)
    ELSE createFormattedTable(table, IF mode = "ascii" THEN ASCII_CHARS ELSE UNICODE_CHARS,
                              showLinks)

\* modifiedText.replace(table.rawText, cardText)
MsgReplaceCard ==
    /\ mpc = "replace"
    /\ mode = "cards"
    /\ mk < Len(mtables)
    /\ modifiedText' = strReplace(modifiedText, mtables[mk + 1].rawText,
                                  renderedTable(mtables[mk + 1]))
    /\ mk' = mk + 1
    /\ UNCHANGED <<mtext, env, processedText, mtables, mode, showLinks, userLang,
                   btext, bparseUrls, mret, mpc, scanVars, rowVars, tsvVars, prefsVars, fnVars>>

\* modifiedText.replace(table.rawText, formattedTable)
MsgReplaceText ==
    /\ mpc = "replace"
    /\ mode # "cards"
    /\ mk < Len(mtables)
    /\ modifiedText' = strReplace(modifiedText, mtables[mk + 1].rawText,
                                  renderedTable(mtables[mk + 1]))
    /\ mk' = mk + 1
    /\ UNCHANGED <<mtext, env, processedText, mtables, mode, showLinks, userLang,
                   btext, bparseUrls, mret, mpc, scanVars, rowVars, tsvVars, prefsVars, fnVars>>

\* modifiedText.replace(/\n{3,}/g, '\n\n').trim(); builder.setText; return
MsgSetText ==
    /\ mpc = "replace"
    /\ mk >= Len(mtables)
    /\ btext' = Trim(collapseNewlines(modifiedText))
    /\ modifiedText' = Trim(collapseNewlines(modifiedText))
    /\ mret' = "builder"
    /\ mpc' = "returned"
    /\ UNCHANGED <<mtext, env, processedText, mtables, mode, showLinks, userLang, mk,
                   bparseUrls, scanVars, rowVars, tsvVars, prefsVars, fnVars>>

NextMsg ==
    \/ MsgEmpty
    \/ MsgNoTables
    \/ MsgTablesFound
    \/ MsgCardsMode
    \/ MsgTextMode
    \/ MsgReplaceCard
    \/ MsgReplaceText
    \/ MsgSetText

SpecMsg == InitMsg /\ [][NextMsg]_vars

-----------------------------------------------------------------------------
(* TablePrefsCommand.  An argument is a word, a sequence of characters.     *)
(* The command exists in two builds: one whose only verb is links, and one  *)
(* that has the verb style as well.                                         *)

LINKS == <<"l", "i", "n", "k", "s">>
STYLE == <<"s", "t", "y", "l", "e">>
ON == <<"o", "n">>
OFF == <<"o", "f", "f">>
UNICODE == <<"u", "n", "i", "c", "o", "d", "e">>
ASCII == <<"a", "s", "c", "i", "i">>
CARDS == <<"c", "a", "r", "d", "s">>
DEFAULT == <<"d", "e", "f", "a", "u", "l", "t">>

\* args[k]?.toLowerCase() of an absent argument
Undefined == <<"undefined">>

\* const setting = args[0]?.toLowerCase()
settingOf(args) == IF Len(args) >= 1 THEN ToLowerCase(args[1]) ELSE Undefined

\* const value = args[1]?.toLowerCase()
valueOf(args) == IF Len(args) >= 2 THEN ToLowerCase(args[2]) ELSE Undefined

validStyles == {UNICODE, ASCII, CARDS, DEFAULT}

\* the style stored for a value of the style verb
styleName(value) ==
    CASE value = UNICODE -> "unicode"
      [] value = ASCII -> "ascii"
      [] value = CARDS -> "cards"
      [] OTHER -> "null"

\* the default preferences of TablePrefsCommand.getUserPrefs
defaultPrefs ==
    IF build = "style" THEN [showLinksBelow |-> TRUE, style |-> "null"]
    ELSE [showLinksBelow |-> TRUE]

\* TablePrefsCommand.getUserPrefs: records[0], or the default preferences
getUserPrefs(records) == IF Len(records) > 0 THEN records[1] ELSE defaultPrefs

\* whether an invocation sits between its start and its last notification
InFlight(c) == c.pc \notin {"idle", "done"}

\* the argument lists users type: none, a verb without a value, a verb with
\* each of its values, in capitals, with a value of the other verb, and an
\* unknown verb
PrefsArgs ==
    { <<>>, <<LINKS>>, <<LINKS, ON>>, << <<"L", "i", "n", "k", "s">>, <<"O", "F", "F">> >>,
      <<STYLE, ASCII>>, <<STYLE, CARDS>>, <<STYLE, DEFAULT>>, <<STYLE, ON>>,
      << <<"t", "h", "e", "m", "e">>, ON >> }

\* what a user types a second time while an invocation is in flight
SecondArgs == { <<LINKS, ON>>, <<STYLE, ASCII>>, <<STYLE, ON>> }

\* the slash command is invoked: executor starts with its arguments
CmdInvoke(s, senders, argLists) ==
    /\ ~InFlight(cmds[s])
    /\ \E u \in senders, a \in argLists :
          /\ cmds' = [cmds EXCEPT ![s] = [pc |-> "start", user |-> u, args |-> a,
                                          prefs |-> [none |-> TRUE], wrote |-> FALSE,
                                          notice |-> <<>>]]
          /\ overlap' = (overlap \/ \E t \in Slots \ {s} :
                                       InFlight(cmds[t]) /\ cmds[t].user = u)
    /\ UNCHANGED <<build, store, lastUpdate, msender, scanVars, rowVars, tsvVars, msgVars, fnVars>>

\* args.length === 0: the current preferences are reported
CmdShow(s) ==
    /\ cmds[s].pc = "start"
    /\ Len(cmds[s].args) = 0
    /\ LET prefs == getUserPrefs(store[cmds[s].user])
       IN cmds' = [cmds EXCEPT ![s].pc = "done",
                               ![s].notice =
                                   IF build = "style"
                                   THEN <<"current",
                                          IF prefs.style = "null" THEN "default (admin setting)"
                                          ELSE prefs.style,
                                          IF prefs.showLinksBelow THEN "on" ELSE "off">>
                                   ELSE <<"current",
                                          IF prefs.showLinksBelow THEN "on" ELSE "off">>]
    /\ UNCHANGED <<build, store, overlap, lastUpdate, msender,
                   scanVars, rowVars, tsvVars, msgVars, fnVars>>

\* setting === 'style' with a valid value: the prefs are read and the
\* style set in them
CmdStyleRead(s) ==
    /\ cmds[s].pc = "start"
    /\ Len(cmds[s].args) > 0
    /\ build = "style"
    /\ settingOf(cmds[s].args) = STYLE
    /\ valueOf(cmds[s].args) \in validStyles
    /\ cmds' = [cmds EXCEPT ![s].pc = "remove",
                            ![s].prefs = [getUserPrefs(store[cmds[s].user]) EXCEPT
                                             !.style = styleName(valueOf(cmds[s].args))]]
    /\ UNCHANGED <<build, store, overlap, lastUpdate, msender,
                   scanVars, rowVars, tsvVars, msgVars, fnVars>>

\* setting === 'style' with any other value: the usage of the verb
CmdStyleUsage(s) ==
    /\ cmds[s].pc = "start"
    /\ Len(cmds[s].args) > 0
    /\ build = "style"
    /\ settingOf(cmds[s].args) = STYLE
    /\ valueOf(cmds[s].args) \notin validStyles
    /\ cmds' = [cmds EXCEPT ![s].pc = "done", ![s].notice = <<"usage", "style">>]
    /\ UNCHANGED <<build, store, overlap, lastUpdate, msender,
                   scanVars, rowVars, tsvVars, msgVars, fnVars>>

\* setting === 'links' with on or off: the prefs are read and
\* showLinksBelow set in them
CmdLinksRead(s) ==
    /\ cmds[s].pc = "start"
    /\ Len(cmds[s].args) > 0
    /\ settingOf(cmds[s].args) = LINKS
    /\ valueOf(cmds[s].args) \in {ON, OFF}
    /\ cmds' = [cmds EXCEPT ![s].pc = "remove",
                            ![s].prefs = [getUserPrefs(store[cmds[s].user]) EXCEPT
                                             !.showLinksBelow = (valueOf(cmds[s].args) = ON)]]
    /\ UNCHANGED <<build, store, overlap, lastUpdate, msender,
                   scanVars, rowVars, tsvVars, msgVars, fnVars>>

\* the usage branch of links saving the preferences it read
CmdLinksUsageSaving(s) ==
    /\ cmds[s].pc = "start"
    /\ Len(cmds[s].args) > 0
    /\ settingOf(cmds[s].args) = LINKS
    /\ valueOf(cmds[s].args) \notin {ON, OFF}
    /\ cmds' = [cmds EXCEPT ![s].pc = "remove",
                            ![s].prefs = getUserPrefs(store[cmds[s].user])]
    /\ UNCHANGED <<build, store, overlap, lastUpdate, msender,
                   scanVars, rowVars, tsvVars, msgVars, fnVars>>

\* setting === 'links' with any other value: the usage of the verb
CmdLinksUsage(s) ==
    /\ cmds[s].pc = "start"
    /\ Len(cmds[s].args) > 0
    /\ settingOf(cmds[s].args) = LINKS
    /\ valueOf(cmds[s].args) \notin {ON, OFF}
    /\ cmds' = [cmds EXCEPT ![s].pc = "done", ![s].notice = <<"usage", "links">>]
    /\ UNCHANGED <<build, store, overlap, lastUpdate, msender,
                   scanVars, rowVars, tsvVars, msgVars, fnVars>>

\* any other setting: the list of the available settings
CmdUnknown(s) ==
    /\ cmds[s].pc = "start"
    /\ Len(cmds[s].args) > 0
    /\ settingOf(cmds[s].args) # LINKS
    /\ ~(build = "style" /\ settingOf(cmds[s].args) = STYLE)
    /\ cmds' = [cmds EXCEPT ![s].pc = "done", ![s].notice = <<"unknown", "settings">>]
    /\ UNCHANGED <<build, store, overlap, lastUpdate, msender,
                   scanVars, rowVars, tsvVars, msgVars, fnVars>>

\* saveUserPrefs without the removal of the records kept so far
CmdRemoveKeeping(s) ==
    /\ cmds[s].pc = "remove"
    /\ store' = store
    /\ cmds' = [cmds EXCEPT ![s].pc = "create", ![s].wrote = TRUE]
    /\ UNCHANGED <<build, overlap, lastUpdate, msender,
                   scanVars, rowVars, tsvVars, msgVars, fnVars>>

\* saveUserPrefs: await persistence.removeByAssociation(association)
CmdRemove(s) ==
    /\ cmds[s].pc = "remove"
    /\ store' = [store EXCEPT ![cmds[s].user] = <<>>]
    /\ cmds' = [cmds EXCEPT ![s].pc = "create", ![s].wrote = TRUE]
    /\ UNCHANGED <<build, overlap, lastUpdate, msender,
                   scanVars, rowVars, tsvVars, msgVars, fnVars>>

\* saveUserPrefs: await persistence.createWithAssociation(prefs, association)
CmdCreate(s) ==
    /\ cmds[s].pc = "create"
    /\ store' = [store EXCEPT ![cmds[s].user] = Append(@, cmds[s].prefs)]
    /\ lastUpdate' = [lastUpdate EXCEPT ![cmds[s].user] = cmds[s].prefs]
    /\ cmds' = [cmds EXCEPT ![s].pc = "notify"]
    /\ UNCHANGED <<build, overlap, msender, scanVars, rowVars, tsvVars, msgVars, fnVars>>

\* the notification after a valid update
CmdNotify(s) ==
    /\ cmds[s].pc = "notify"
    /\ cmds' = [cmds EXCEPT ![s].pc = "done",
                            ![s].prefs = [none |-> TRUE],
                            ![s].notice =
                                IF settingOf(cmds[s].args) = LINKS
                                THEN <<"links", IF valueOf(cmds[s].args) = ON THEN "on" ELSE "off">>
                                ELSE <<"style",
                                       IF valueOf(cmds[s].args) = DEFAULT
                                       THEN "default (admin setting)"
                                       ELSE styleName(valueOf(cmds[s].args))>>]
    /\ UNCHANGED <<build, store, overlap, lastUpdate, msender,
                   scanVars, rowVars, tsvVars, msgVars, fnVars>>

-----------------------------------------------------------------------------------------------------------------------------------------------------
(* Specification SpecPrefs: two users run /tableprefs, and one of them      *)
(* may run it a second time while an invocation is in flight.               *)

InitPrefs ==
    /\ IdleScan
    /\ IdleRow
    /\ IdleTsv
    /\ IdleMsg
    /\ IdleFn
    /\ build \in {"links", "style"}
    /\ store = [u \in Users |-> <<>>]
    /\ cmds = [s \in Slots |-> IdleCmd]
    /\ overlap = FALSE
    /\ lastUpdate = [u \in Users |-> [none |-> TRUE]]
    /\ msender = "u1"

NextPrefs ==
    \/ CmdInvoke(1, Users, PrefsArgs)
    \/ CmdInvoke(2, {"u1"}, SecondArgs)
    \/ \E s \in Slots :
       \/ CmdShow(s)
       \/ CmdStyleRead(s)
       \/ CmdStyleUsage(s)
       \/ CmdLinksRead(s)
       \/ CmdLinksUsage(s)
       \/ CmdUnknown(s)
       \/ CmdRemove(s)
       \/ CmdCreate(s)
       \/ CmdNotify(s)

SpecPrefs == InitPrefs /\ [][NextPrefs]_vars

-----------------------------------------------------------------------------
(* Specification SpecSender: one user runs /tableprefs, one invocation at   *)
(* a time, and sends messages.  A message is handled by the steps of        *)
(* executePreMessageSentModify, with the records the store holds for its    *)
(* sender when it arrives.                                                  *)

\* the messages sent: an empty one, prose, and a table with a link in a row
SenderTexts ==
    { <<>>, <<"x">>,
      JoinWith(<< <<"|", "a">>, <<"|", "-">>, <<"|", "[", "a", "]", "(", "b", ")">> >>, <<NL>>) }

\* the admin settings of the workspace
SenderEnvs ==
    { TextEnv("unicode", "true", "true"), TextEnv("ascii", "false", "true"),
      CardsEnv("true", "auto", "undefined", <<>>),
      CardsEnv("false", "auto", "undefined", <<>>) }

InitSender ==
    /\ IdleScan
    /\ IdleRow
    /\ IdleTsv
    /\ IdleFn
    /\ mtext = <<>>
    /\ env \in SenderEnvs
    /\ processedText = <<>>
    /\ mtables = <<>>
    /\ mode = "none"
    /\ showLinks = FALSE
    /\ userLang = "en"
    /\ mk = 0
    /\ modifiedText = <<>>
    /\ btext = <<>>
    /\ bparseUrls = "unset"
    /\ mret = "none"
    /\ mpc = "idle"
    /\ build \in {"links", "style"}
    /\ store = [u \in Users |-> <<>>]
    /\ cmds = [s \in Slots |-> IdleCmd]
    /\ overlap = FALSE
    /\ lastUpdate = [u \in Users |-> [none |-> TRUE]]
    /\ msender = "u1"

\* the user sends a message: the handler starts, and getUserPrefs will find
\* the records the store holds for the sender
MsgArrive(senders) ==
    /\ mpc \in {"idle", "returned"}
    /\ \E u \in senders, t \in SenderTexts :
          /\ msender' = u
          /\ mtext' = t
          /\ env' = [env EXCEPT !.records = store[u]]
    /\ processedText' = <<>>
    /\ mtables' = <<>>
    /\ mode' = "none"
    /\ showLinks' = FALSE
    /\ userLang' = "en"
    /\ mk' = 0
    /\ modifiedText' = <<>>
    /\ btext' = <<>>
    /\ bparseUrls' = "unset"
    /\ mret' = "none"
    /\ mpc' = "start"
    /\ UNCHANGED <<build, store, cmds, overlap, lastUpdate, scanVars, rowVars, tsvVars, fnVars>>

NextSender ==
    \/ CmdInvoke(1, {"u1"}, PrefsArgs)
    \/ CmdShow(1)
    \/ CmdStyleRead(1)
    \/ CmdStyleUsage(1)
    \/ CmdLinksRead(1)
    \/ CmdLinksUsage(1)
    \/ CmdUnknown(1)
    \/ CmdRemove(1)
    \/ CmdCreate(1)
    \/ CmdNotify(1)
    \/ MsgArrive({"u1"})
    \/ MsgEmpty
    \/ MsgNoTables
    \/ MsgTablesFound
    \/ MsgCardsMode
    \/ MsgTextMode
    \/ MsgReplaceCard
    \/ MsgReplaceText
    \/ MsgSetText

SpecSender == InitSender /\ [][NextSender]_vars

-----------------------------------------------------------------------------
(* Specification SpecLinks: a renderer is run on a table whose cells hold   *)
(* links, and the links it lists are recorded with its output.              *)

\* the cells of the tables rendered
\* a bare URL
BARE_URL == <<"h", "t", "t", "p", "s", ":", "/", "/", "e", "x", "a", "m", "p", "l", "e", ".", "c", "o", "m">>
\* the same address with www. and a trailing slash
BARE_WWW_URL == <<"h", "t", "t", "p", "s", ":", "/", "/", "w", "w", "w", ".", "e", "x", "a", "m", "p", "l", "e", ".", "c", "o", "m", "/">>
\* a markdown link to the same address in capitals
MD_LINK == <<"[", "E", "x", "a", "m", "p", "l", "e", "]", "(", "h", "t", "t", "p", "s", ":", "/", "/", "E", "X", "A", "M", "P", "L", "E", ".", "c", "o", "m", ")">>
\* a markdown link to an anchor
MD_ANCHOR == <<"[", "a", "]", "(", "#", "s", ")">>
\* a markdown link with an empty url
MD_EMPTY == <<"[", "c", "]", "(", ")">>
\* a markdown link to another address
MD_OTHER == <<"[", "B", "]", "(", "h", "t", "t", "p", ":", "/", "/", "b", ".", "s", "e", ")">>
\* a markdown link followed by its address as a bare URL
MD_THEN_BARE == <<"[", "B", "]", "(", "h", "t", "t", "p", ":", "/", "/", "b", ".", "s", "e", ")", " ", "h", "t", "t", "p", ":", "/", "/", "b", ".", "s", "e", "/">>
\* a cell without a link
PLAIN_CELL == <<"x">>

LinkCells == {BARE_URL, BARE_WWW_URL, MD_LINK, MD_ANCHOR, MD_EMPTY, MD_OTHER, MD_THEN_BARE, PLAIN_CELL}

\* the number of columns of the tables rendered
MaxLinkCells == 3

\* a table as parseMarkdownTable returns it, of one row
LinkTable(headers, row) ==
    [headers |-> headers, rows |-> <<row>>,
     alignments |-> [k \in 1..Len(headers) |-> "left"]]

\* tables of one to MaxLinkCells columns, under plain headers or with a
\* markdown link in the first header
LinkTables ==
    { LinkTable([k \in 1..Len(row) |-> IF k = 1 THEN h ELSE <<"h">>], row) :
         h \in {<<"h">>, MD_OTHER},
         row \in UNION { [1..n -> LinkCells] : n \in 1..MaxLinkCells } }

\* the links createFormattedTable lists below the table
formattedTableLinks(table) ==
    uniqueLinks(extractLinksOfRows(table.rows, <<>>,
                                   extractLinksOfCells(table.headers, <<>>, <<>>).links).links)

\* the links createCardText lists above the image
cardTextLinks(table) == uniqueLinks(cardLinksOfRows(table.rows, <<>>))

NoRendering == [renderer |-> "none", links |-> <<>>, out |-> <<>>]

InitLinks ==
    /\ IdleScan
    /\ IdleRow
    /\ IdleTsv
    /\ IdleMsg
    /\ IdlePrefs
    /\ fin \in LinkTables
    /\ fout = NoRendering
    /\ fpc = "idle"

\* createFormattedTable(table, chars, true)
RenderText ==
    /\ fpc = "idle"
    /\ \E chars \in {UNICODE_CHARS, ASCII_CHARS} :
          fout' = [renderer |-> "text", links |-> formattedTableLinks(fin),
                   out |-> createFormattedTable(fin, chars, TRUE)]
    /\ fpc' = "done"
    /\ UNCHANGED <<fin, scanVars, rowVars, tsvVars, msgVars, prefsVars>>

\* createCardText(table, true, 'en')
RenderCard ==
    /\ fpc = "idle"
    /\ fout' = [renderer |-> "cards", links |-> cardTextLinks(fin),
                out |-> createCardText(fin, TRUE, "en")]
    /\ fpc' = "done"
    /\ UNCHANGED <<fin, scanVars, rowVars, tsvVars, msgVars, prefsVars>>

\* createCardText(table, false, 'en')
RenderCardHidden ==
    /\ fpc = "idle"
    /\ fout' = [renderer |-> "cards", links |-> cardTextLinks(fin),
                out |-> createCardText(fin, FALSE, "en")]
    /\ fpc' = "hidden"
    /\ UNCHANGED <<fin, scanVars, rowVars, tsvVars, msgVars, prefsVars>>

NextLinks ==
    \/ RenderText
    \/ RenderCard
    \/ RenderCardHidden

SpecLinks == InitLinks /\ [][NextLinks]_vars

-----------------------------------------------------------------------------
(* Specification SpecCell: getDisplayWidth and padCell are run on a cell,   *)
(* a column width and an alignment.                                         *)

\* the longest cell measured and the widest column padded to
MaxCellLen == 3
MaxColWidth == 5

\* the characters of a cell: a letter, a blank, an emoji of the basic plane,
\* an emoji outside it, and a letter outside the basic plane that is in
\* none of the emoji ranges
CellChars == {"a", " ", "u+2705", "u+1F600", "u+1D400"}

CellTexts == UNION { [1..n -> CellChars] : n \in 0..MaxCellLen }

\* table.alignments[i]: a parsed alignment, or undefined past the end
CellAlignments == {"left", "right", "center", "none", "undefined"}

NoResult == [op |-> "none", width |-> 0, text |-> <<>>]

InitCell ==
    /\ IdleScan
    /\ IdleRow
    /\ IdleTsv
    /\ IdleMsg
    /\ IdlePrefs
    /\ fin \in [text : CellTexts, columnWidth : 0..MaxColWidth, align : CellAlignments]
    /\ fout = NoResult
    /\ fpc = "idle"

\* getDisplayWidth(text); a text may be measured again
MeasureCell ==
    /\ fpc \in {"idle", "measured"}
    /\ fout' = [op |-> "width", width |-> getDisplayWidth(fin.text), text |-> fin.text]
    /\ fpc' = "measured"
    /\ UNCHANGED <<fin, scanVars, rowVars, tsvVars, msgVars, prefsVars>>

\* padCell(text, columnWidth, align)
PadCell ==
    /\ fpc = "idle"
    /\ fout' = [op |-> "pad", width |-> getDisplayWidth(fin.text),
                text |-> padCell(fin.text, fin.columnWidth, fin.align)]
    /\ fpc' = "padded"
    /\ UNCHANGED <<fin, scanVars, rowVars, tsvVars, msgVars, prefsVars>>

NextCell ==
    \/ MeasureCell
    \/ PadCell

SpecCell == InitCell /\ [][NextCell]_vars

-----------------------------------------------------------------------------
(* Specification SpecShape: createFormattedTable is run on tables of        *)
(* every shape up to MaxCols columns and MaxRows data rows.                 *)

MaxCols == 2
MaxRows == 2

\* the cells of the tables: a letter, and an emoji with a markdown link
ShapeCells == { <<"a">>, <<"u+2705", "[", "b", "]", "(", "c", ")">> }

\* the alignment of column k
ShapeAlignment(k) == IF k = 1 THEN "center" ELSE IF k = 2 THEN "right" ELSE "none"

\* tables as parseMarkdownTable returns them: at least one data row, every
\* row as long as the headers
ShapeTables ==
    UNION { { [headers |-> hs, rows |-> rs, alignments |-> [k \in 1..n |-> ShapeAlignment(k)]] :
                 hs \in [1..n -> ShapeCells], rs \in [1..m -> [1..n -> ShapeCells]] } :
            n \in 1..MaxCols, m \in 1..MaxRows }

InitShape ==
    /\ IdleScan
    /\ IdleRow
    /\ IdleTsv
    /\ IdleMsg
    /\ IdlePrefs
    /\ fin \in ShapeTables
    /\ fout = [chars |-> ASCII_CHARS, out |-> <<>>]
    /\ fpc = "idle"

\* createFormattedTable(table, chars, showLinksBelow)
RenderTable ==
    /\ fpc = "idle"
    /\ \E chars \in {UNICODE_CHARS, ASCII_CHARS}, showLinksBelow \in BOOLEAN :
          fout' = [chars |-> chars, out |-> createFormattedTable(fin, chars, showLinksBelow)]
    /\ fpc' = "rendered"
    /\ UNCHANGED <<fin, scanVars, rowVars, tsvVars, msgVars, prefsVars>>

NextShape == RenderTable

SpecShape == InitShape /\ [][NextShape]_vars

-----------------------------------------------------------------------------
(* Specification SpecRuns: parseFormattedText is run on a cell.             *)

\* the longest cell made of letters and delimiters
MaxRunLen == 5

\* the characters of the cells: the delimiters of the spans, a letter and a
\* blank
RunChars == {"*", "_", GRAVE, "a", " "}

\* cells that hold a markdown link: alone, inside a bold span, with an
\* italic label, and between plain text and an italic span
RunLinkTexts ==
    { <<"[", "a", "]", "(", "b", ")">>,
      <<"*", "*", "[", "a", "]", "(", "b", ")", "*", "*">>,
      <<"[", "*", "a", "*", "]", "(", "b", ")">>,
      <<"x", "[", "a", "]", "(", "b", ")", "_", "c", "_">> }

RunTexts == UNION { [1..n -> RunChars] : n \in 0..MaxRunLen } \cup RunLinkTexts

InitRuns ==
    /\ IdleScan
    /\ IdleRow
    /\ IdleTsv
    /\ IdleMsg
    /\ IdlePrefs
    /\ fin \in RunTexts
    /\ fout = <<>>
    /\ fpc = "idle"

\* parseFormattedText(text)
ParseRuns ==
    /\ fpc = "idle"
    /\ fout' = parseFormattedText(fin)
    /\ fpc' = "parsed"
    /\ UNCHANGED <<fin, scanVars, rowVars, tsvVars, msgVars, prefsVars>>

NextRuns == ParseRuns

SpecRuns == InitRuns /\ [][NextRuns]_vars

-----------------------------------------------------------------------------
(* Specification SpecCardSize: the sizes createCardText computes for the   *)
(* image of a table.                                                       *)

MaxCardCols == 2

\* cells of plain lengths 0, 1, 6, 7, 8, 9 and 10: letters, a bold span of
\* seven letters, a link with a label of nine letters, and an emoji outside
\* the basic plane
CardCells ==
    { Repeat("a", n) : n \in {0, 1, 6, 8, 10} }
    \cup { <<"*", "*">> \o Repeat("a", 7) \o <<"*", "*">>,
           <<"[">> \o Repeat("a", 9) \o <<"]", "(", "b", ")">>,
           <<"u+1F600">> }

CardHeaders == { <<"h">>, <<GRAVE>> \o Repeat("a", 9) \o <<GRAVE>> }

\* tables of one row and of one to MaxCardCols columns
CardTables ==
    UNION { { [headers |-> hs, rows |-> <<row>>, alignments |-> [k \in 1..n |-> "none"]] :
                 hs \in [1..n -> CardHeaders], row \in [1..n -> CardCells] } :
            n \in 1..MaxCardCols }

InitCardSize ==
    /\ IdleScan
    /\ IdleRow
    /\ IdleTsv
    /\ IdleMsg
    /\ IdlePrefs
    /\ fin \in CardTables
    /\ fout = [cw |-> <<>>, rh |-> 0, tw |-> 0, th |-> 0]
    /\ fpc = "idle"

\* lines 286-307 of createCardText
SizeCard ==
    /\ fpc = "idle"
    /\ fout' = [cw |-> cw(fin), rh |-> rh, tw |-> tw(cw(fin)), th |-> th(fin)]
    /\ fpc' = "sized"
    /\ UNCHANGED <<fin, scanVars, rowVars, tsvVars, msgVars, prefsVars>>

NextCardSize == SizeCard

SpecCardSize == InitCardSize /\ [][NextCardSize]_vars

-----------------------------------------------------------------------------
(* A separator row described character by character: segments separated    *)
(* by '|', each made of optional blanks, an optional colon, one or more     *)
(* dashes, an optional colon and optional blanks.                           *)

RECURSIVE SeparatorRun(_, _, _)
SeparatorRun(s, k, q) ==
    IF k > Len(s) THEN q \in {"dash", "colon", "blank"}
    ELSE LET c == s[k]
         IN CASE q = "open" ->
                   IF c \in WhiteSpace THEN SeparatorRun(s, k + 1, "open")
                   ELSE IF c = ":" THEN SeparatorRun(s, k + 1, "lead")
                   ELSE IF c = "-" THEN SeparatorRun(s, k + 1, "dash")
                   ELSE FALSE
              [] q = "lead" ->
                   IF c = "-" THEN SeparatorRun(s, k + 1, "dash") ELSE FALSE
              [] q = "dash" ->
                   IF c = "-" THEN SeparatorRun(s, k + 1, "dash")
                   ELSE IF c = ":" THEN SeparatorRun(s, k + 1, "colon")
                   ELSE IF c \in WhiteSpace THEN SeparatorRun(s, k + 1, "blank")
                   ELSE IF c = "|" THEN SeparatorRun(s, k + 1, "open")
                   ELSE FALSE
              [] q = "colon" ->
                   IF c \in WhiteSpace THEN SeparatorRun(s, k + 1, "blank")
                   ELSE IF c = "|" THEN SeparatorRun(s, k + 1, "open")
                   ELSE FALSE
              [] OTHER ->
                   IF c \in WhiteSpace THEN SeparatorRun(s, k + 1, "blank")
                   ELSE IF c = "|" THEN SeparatorRun(s, k + 1, "open")
                   ELSE FALSE

\* s without one leading and one trailing '|'
WithoutOuterPipes(s) ==
    LET lo == IF Len(s) > 0 /\ s[1] = "|" THEN 2 ELSE 1
        hi == IF Len(s) >= lo /\ s[Len(s)] = "|" THEN Len(s) - 1 ELSE Len(s)
    IN SubSeq(s, lo, hi)

SeparatorSegmentsOk(s) == SeparatorRun(WithoutOuterPipes(s), 1, "open")

\* a valid separator row: contains a '|' and, trimmed, is made of segments
ValidSeparatorLine(line) == Includes(line, "|") /\ SeparatorSegmentsOk(Trim(line))

\* line p exists and contains a '|'
CandidateAt(p) == p < Len(lines) /\ Includes(LineAt(lines, p), "|")

SeparatorAt(p) == p < Len(lines) /\ ValidSeparatorLine(LineAt(lines, p))

RegionStarts == {tables[n].start : n \in 1..Len(tables)}

-----------------------------------------------------------------------------
(* Claims on parseMarkdownTable (specification Spec).                      *)

\* C1: every emitted region starts at a line containing '|', is followed at
\* once by a valid separator row and has at least one data row, every data
\* row containing '|'; a header and separator followed by no candidate line
\* or by the end of input, and a candidate followed by a non-separator
\* line, emit no region.
C1_RegionShape ==
    /\ \A n \in 1..Len(tables) :
          LET r == tables[n]
          IN /\ CandidateAt(r.start)
             /\ SeparatorAt(r.start + 1)
             /\ Len(r.rows) >= 1
             /\ r.end = r.start + 2 + Len(r.rows)
             /\ \A k \in (r.start + 2)..(r.end - 1) : CandidateAt(k)
    /\ pc = "done" =>
          \A p \in 0..(Len(lines) - 1) :
             /\ (CandidateAt(p) /\ SeparatorAt(p + 1) /\ ~CandidateAt(p + 2))
                   => p \notin RegionStarts
             /\ (CandidateAt(p) /\ ~SeparatorAt(p + 1)) => p \notin RegionStarts

\* a finished scan that emitted a region, passed a header and separator
\* without data rows and passed a candidate without a separator
C1_Witness ==
    /\ pc = "done"
    /\ Len(tables) >= 1
    /\ \E p \in 0..(Len(lines) - 1) :
          CandidateAt(p) /\ SeparatorAt(p + 1) /\ ~CandidateAt(p + 2)
    /\ \E p \in 0..(Len(lines) - 1) : CandidateAt(p) /\ ~SeparatorAt(p + 1)

\* the cells of source line k as the row parser splits them
SourceCells(k) == parseTableRow(LineAt(lines, k))

\* C2: in every emitted region every row has exactly len(headers) cells: a
\* shorter source row is padded on the right with empty strings, a longer
\* one keeps its first len(headers) cells, and no row is rejected.
C2_RowsNormalized ==
    \A n \in 1..Len(tables) :
       LET r == tables[n]
           w == Len(r.headers)
       IN /\ r.headers = SourceCells(r.start)
          /\ Len(r.rows) = r.end - r.start - 2
          /\ \A m \in 1..Len(r.rows) :
                LET src == SourceCells(r.start + 1 + m)
                IN /\ Len(r.rows[m]) = w
                   /\ \A c \in 1..w :
                         r.rows[m][c] = IF c <= Len(src) THEN src[c] ELSE <<>>

\* a finished scan with one region that padded a row and one that truncated
C2_Witness ==
    /\ pc = "done"
    /\ \E n \in 1..Len(tables) : \E m \in 1..Len(tables[n].rows) :
          Len(SourceCells(tables[n].start + 1 + m)) < Len(tables[n].headers)
    /\ \E n \in 1..Len(tables) : \E m \in 1..Len(tables[n].rows) :
          Len(SourceCells(tables[n].start + 1 + m)) > Len(tables[n].headers)

\* C3: in every emitted region the alignments have exactly len(headers)
\* entries, also when the separator row has another number of segments.
C3_AlignmentsMatchHeaders ==
    \A n \in 1..Len(tables) :
       Len(tables[n].alignments) = Len(tables[n].headers)

\* number of characters of a text before its line k (0-based)
RECURSIVE CharsBeforeIn(_, _)
CharsBeforeIn(ls, k) ==
    IF k = 0 THEN 0 ELSE CharsBeforeIn(ls, k - 1) + Len(LineAt(ls, k - 1)) + 1

CharsBefore(k) == CharsBeforeIn(lines, k)

\* the text rebuilt from the gaps of the original text and the rawText of
\* regions n, n+1, ..., starting after character pos
RECURSIVE Rebuild(_, _)
Rebuild(n, pos) ==
    IF n > Len(tables)
    THEN SubSeq(text, pos + 1, Len(text))
    ELSE SubSeq(text, pos + 1, CharsBefore(tables[n].start))
            \o tables[n].rawText
            \o Rebuild(n + 1, CharsBefore(tables[n].end) - 1)

\* C4: the regions are in document order, no two share a line, each
\* rawText is exactly the original lines of its range joined with
\* newlines, and the spans with the gaps between them rebuild the text.
C4_RegionsPartitionText ==
    pc \in {"scan", "done"} =>
       /\ \A n \in 1..Len(tables) :
             LET r == tables[n]
                 from == CharsBefore(r.start)
             IN /\ 0 <= r.start /\ r.start < r.end /\ r.end <= Len(lines)
                /\ Len(r.rawText) = CharsBefore(r.end) - 1 - from
                /\ r.rawText = SubSeq(text, from + 1, from + Len(r.rawText))
                /\ \A k \in 1..Len(r.rawText) :
                      r.rawText[k] = NL <=>
                         \E m \in (r.start + 1)..(r.end - 1) : from + k = CharsBefore(m)
       /\ \A n \in 1..(Len(tables) - 1) : tables[n].end <= tables[n + 1].start
       /\ Rebuild(1, 0) = text

\* a finished scan with two regions and text between them
C4_Witness ==
    /\ pc = "done"
    /\ Len(tables) >= 2
    /\ tables[1].end < tables[2].start

\* a well-formed table starts at line p: candidate, separator, candidate
WellFormedAt(p) == CandidateAt(p) /\ SeparatorAt(p + 1) /\ CandidateAt(p + 2)

ConsumedByEarlierRegion(p) ==
    \E n \in 1..Len(tables) : tables[n].start < p /\ p < tables[n].end

NoTableMissed ==
    pc = "done" =>
       \A p \in 0..(Len(lines) - 1) :
          (WellFormedAt(p) /\ ~ConsumedByEarlierRegion(p)) => p \in RegionStarts

RejectedCandidateAdvancesByOne ==
    (pc = "scan" /\ CandidateAt(i) /\ ~SeparatorAt(i + 1))
       => (i' = i + 1 /\ tables' = tables)

\* C5: at a candidate row whose next line is no valid separator the scanner
\* advances by exactly one line, and every well-formed table whose header is
\* not consumed by an earlier emitted region is recognized.
C5_NoTableMissed == [][RejectedCandidateAdvancesByOne]_vars /\ []NoTableMissed

\* a finished scan in which a rejected candidate is directly followed by the
\* header of an emitted region
C5_Witness ==
    /\ pc = "done"
    /\ \E p \in 0..(Len(lines) - 1) :
          /\ CandidateAt(p)
          /\ ~SeparatorAt(p + 1)
          /\ (p + 1) \in RegionStarts

-----------------------------------------------------------------------------
(* Claims on the row helpers (specification SpecRow).                      *)

\* C6 as stated: isSeparatorRow(line) is true iff, after stripping one
\* optional leading and one optional trailing '|' and splitting on '|',
\* there is at least one segment and every trimmed segment is an optional
\* colon, one or more dashes and an optional colon.
C6_SeparatorAsStated ==
    rpc # "classify" => (rres.sep <=> SeparatorSegmentsOk(rline))

\* C6 amended: isSeparatorRow(line) is true iff the line contains a '|' and
\* the trimmed line, stripped of one leading and one trailing '|', is made
\* of segments that are each an optional colon, one or more dashes and an
\* optional colon, with blanks around.
C6_SeparatorRow ==
    rpc # "classify" => (rres.sep <=> ValidSeparatorLine(rline))

\* an accepted separator with a blank before it and a colon in it
C6_Witness ==
    /\ rpc = "classified"
    /\ rres.sep
    /\ rline[1] = " "
    /\ Includes(rline, ":")

\* the segments of the separator row
SeparatorSegments(line) == SplitOn(WithoutOuterPipes(Trim(line)), "|")

ColonBeforeDash(seg) ==
    \E p \in 1..Len(seg) : \E q \in (p + 1)..Len(seg) : seg[p] = ":" /\ seg[q] = "-"

ColonAfterDash(seg) ==
    \E p \in 1..Len(seg) : \E q \in 1..(p - 1) : seg[p] = ":" /\ seg[q] = "-"

\* C7: the alignment of column k is determined only by the colons of the
\* k-th separator segment: on both sides center, trailing only right,
\* leading only left, none none.
C7_AlignmentByColons ==
    (rpc = "parsed" /\ rres.sep) =>
       LET segs == SeparatorSegments(rline)
       IN /\ Len(rres.alignments) = Len(segs)
          /\ \A k \in 1..Len(segs) :
                rres.alignments[k] =
                   IF ColonBeforeDash(segs[k]) /\ ColonAfterDash(segs[k]) THEN "center"
                   ELSE IF ColonAfterDash(segs[k]) THEN "right"
                   ELSE IF ColonBeforeDash(segs[k]) THEN "left"
                   ELSE "none"

\* a parsed separator of two columns, one centered and one right-aligned
C7_Witness ==
    /\ rpc = "parsed"
    /\ rres.sep
    /\ rres.alignments = <<"center", "right">>

-----------------------------------------------------------------------------
(* Claims on convertTsvToMarkdown (specification SpecTsv).                 *)

\* input line k (1-based) contains a tab
HasTabAt(k) == Includes(tlines[k], TAB)

\* last line of the maximal run of tab lines that starts at line k
RunEnd(k) ==
    CHOOSE b \in k..Len(tlines) :
       /\ \A m \in k..b : HasTabAt(m)
       /\ b = Len(tlines) \/ ~HasTabAt(b + 1)

\* the output pieces by maximal runs: a line without a tab and a run of one
\* line as they are, a run of two or more lines converted as one block
RECURSIVE PiecesFrom(_)
PiecesFrom(k) ==
    IF k > Len(tlines) THEN <<>>
    ELSE IF ~HasTabAt(k) THEN <<tlines[k]>> \o PiecesFrom(k + 1)
    ELSE LET b == RunEnd(k)
         IN IF b > k
            THEN <<tsvBlockToMarkdown(SubSeq(tlines, k, b))>> \o PiecesFrom(b + 1)
            ELSE <<tlines[k]>> \o PiecesFrom(k + 1)

RECURSIVE IsSubsequence(_, _)
IsSubsequence(a, b) ==
    IF Len(a) = 0 THEN TRUE
    ELSE IF Len(b) = 0 THEN FALSE
    ELSE IF a[1] = b[1] THEN IsSubsequence(Tail(a), Tail(b))
    ELSE IsSubsequence(a, Tail(b))

HasNoTab(line) == ~Includes(line, TAB)

TsvConverted == tpc \in {"converted", "done"}

\* C8: convertTsvToMarkdown rewrites exactly the maximal runs of two or more
\* consecutive tab lines: every line without a tab is in the output,
\* unchanged and in its original order, and a run of one tab line is
\* emitted verbatim.
C8_OnlyTabRunsRewritten ==
    TsvConverted =>
       /\ tout = JoinWith(PiecesFrom(1), <<NL>>)
       /\ IsSubsequence(SelectSeq(tlines, HasNoTab), SplitOn(tout, NL))

\* a converted text with a run of two tab lines, a line without a tab and
\* a run of one tab line
C8_Witness ==
    /\ TsvConverted
    /\ \E k \in 1..Len(tlines) : HasTabAt(k) /\ RunEnd(k) > k
    /\ \E k \in 1..Len(tlines) :
          /\ HasTabAt(k) /\ RunEnd(k) = k
          /\ k > 1 /\ ~HasTabAt(k - 1)
    /\ tout # ttext

\* the whole input is one block of two or more tab lines
IsTabBlock == Len(tlines) >= 2 /\ \A k \in 1..Len(tlines) : HasTabAt(k)

\* exactly one region, its headers the cells of the first line and its rows
\* the cells of the other lines, padded or truncated to the header count
OneRegionOfBlock ==
    /\ Len(tparsed) = 1
    /\ LET r == tparsed[1]
           h == tsvCells(tlines[1])
       IN /\ r.headers = h
          /\ Len(r.rows) = Len(tlines) - 1
          /\ \A m \in 1..Len(r.rows) :
                LET src == tsvCells(tlines[m + 1])
                IN /\ Len(r.rows[m]) = Len(h)
                   /\ \A c \in 1..Len(h) :
                         r.rows[m][c] = IF c <= Len(src) THEN src[c] ELSE <<>>

\* C9 as stated: for any block of M >= 2 consecutive tab lines the scan of
\* the converted block yields exactly one region with the first line's
\* cells as headers and the M-1 other lines as rows.
C9_BlockRoundTripAsStated ==
    (tpc = "done" /\ IsTabBlock) => OneRegionOfBlock

CleanBlock ==
    /\ IsTabBlock
    /\ \A k \in 1..Len(tlines) : IsNonBlank(tlines[k]) /\ ~Includes(tlines[k], "|")

\* C9 amended: for any block of M >= 2 consecutive tab lines none of which
\* is blank (only whitespace) or contains '|', the scan of the converted
\* block yields exactly one region with the first line's trimmed cells as
\* headers and the M-1 other lines as rows, padded or truncated.
C9_BlockRoundTrip ==
    (tpc = "done" /\ CleanBlock) => OneRegionOfBlock

\* a scanned block of three clean lines with a row of another cell count
\* than the header
C9_Witness ==
    /\ tpc = "done"
    /\ CleanBlock
    /\ Len(tlines) >= 3
    /\ \E k \in 2..Len(tlines) : Len(tsvCells(tlines[k])) # Len(tsvCells(tlines[1]))

-----------------------------------------------------------------------------
(* Claims on executePreMessageSentModify (specification SpecMsg).          *)

\* the normalized text with the span of region n, n+1, ... replaced, at the
\* region's own lines, by the string its renderer returned
RECURSIVE SpliceRendered(_, _)
SpliceRendered(n, pos) ==
    LET pl == SplitOn(processedText, NL)
    IN IF n > Len(mtables)
       THEN SubSeq(processedText, pos + 1, Len(processedText))
       ELSE SubSeq(processedText, pos + 1, CharsBeforeIn(pl, mtables[n].start))
               \o renderedTable(mtables[n])
               \o SpliceRendered(n + 1, CharsBeforeIn(pl, mtables[n].end) - 1)

\* C10: when a region is recognized, the text set on the message is the
\* normalized text with each region's span replaced at its own position by
\* exactly the string its renderer returned, runs of 3 or more newlines
\* collapsed to 2 and the whole trimmed, whatever the cells contain and
\* also when two regions have identical or overlapping text.
C10_RegionsReplacedInPlace ==
    (mpc = "returned" /\ mret = "builder") =>
       btext = Trim(collapseNewlines(SpliceRendered(1, 0)))

-----------------------------------------------------------------------------
(* Claims on TablePrefsCommand (specification SpecPrefs).                   *)

\* the verbs of the build, and the values each verb takes
KnownVerbs == IF build = "style" THEN {LINKS, STYLE} ELSE {LINKS}

ValuesOfVerb(verb) == IF verb = LINKS THEN {ON, OFF} ELSE validStyles

\* an invocation that names no valid update: an unknown verb, or a known
\* verb whose value is missing or is not one of its values (in any case)
InvalidUpdate(args) ==
    /\ Len(args) > 0
    /\ \/ settingOf(args) \notin KnownVerbs
       \/ valueOf(args) \notin ValuesOfVerb(settingOf(args))

\* C11: an invocation with an unknown verb, or with a known verb and a
\* missing or invalid value, ends with a usage message and has written
\* nothing to the store; an invocation with no arguments ends with the
\* report of the current preferences and has written nothing.
C11_InvalidCommandWritesNothing ==
    \A s \in Slots :
       cmds[s].pc = "done" =>
          /\ InvalidUpdate(cmds[s].args) =>
                /\ cmds[s].notice[1] \in {"usage", "unknown"}
                /\ ~cmds[s].wrote
          /\ cmds[s].args = <<>> =>
                /\ cmds[s].notice[1] = "current"
                /\ ~cmds[s].wrote

\* an invalid value of a known verb was answered while the user had a
\* stored record, and the other invocation has saved its preferences
C11_Witness ==
    /\ cmds[1].pc = "done"
    /\ InvalidUpdate(cmds[1].args)
    /\ settingOf(cmds[1].args) \in KnownVerbs
    /\ Len(store[cmds[1].user]) = 1
    /\ cmds[2].pc = "done"
    /\ cmds[2].wrote

\* no invocation of user u is in flight
Quiescent(u) == \A s \in Slots : InFlight(cmds[s]) => cmds[s].user # u

\* the preferences a user has before an update: the stored record, or the
\* defaults of the command when there is none
PrefsBefore(u) == IF store[u] = <<>> THEN defaultPrefs ELSE store[u][1]

\* the object an update hands to saveUserPrefs has the field of its verb set
\* to the new value and every other field as it was read
WholeRecord(c) ==
    /\ DOMAIN c.prefs = DOMAIN PrefsBefore(c.user)
    /\ c.prefs.showLinksBelow =
          IF settingOf(c.args) = LINKS THEN valueOf(c.args) = ON
          ELSE PrefsBefore(c.user).showLinksBelow
    /\ build = "style" =>
          c.prefs.style = IF settingOf(c.args) = STYLE THEN styleName(valueOf(c.args))
                          ELSE PrefsBefore(c.user).style

\* C12: while the commands of a user run one after the other, whenever none
\* of them is in flight the store holds at most one record for the user: none
\* before the first valid update, and after a valid update exactly the
\* record that update wrote, which has the updated field set to the new
\* value and the other field as it was read just before.
C12_OneRecordPerUser ==
    ~overlap =>
       /\ \A u \in Users :
             Quiescent(u) =>
                /\ Len(store[u]) <= 1
                /\ (lastUpdate[u] = [none |-> TRUE]) => store[u] = <<>>
                /\ (lastUpdate[u] # [none |-> TRUE]) => store[u] = <<lastUpdate[u]>>
       /\ \A s \in Slots : cmds[s].pc = "remove" => WholeRecord(cmds[s])

\* a user has set the links off and then the style: the one record kept
\* carries both
C12_Witness ==
    /\ ~overlap
    /\ Quiescent("u1")
    /\ store["u1"] = << [showLinksBelow |-> FALSE, style |-> "ascii"] >>
    /\ lastUpdate["u1"] = [showLinksBelow |-> FALSE, style |-> "ascii"]
    /\ Len(store["u2"]) = 1

\* at most one record per user whenever no invocation of the user is in
\* flight, overlapping invocations included
OneRecordAlways == \A u \in Users : Quiescent(u) => Len(store[u]) <= 1

-----------------------------------------------------------------------------
(* Claims on the preferences of the sender (specification SpecSender).     *)

HasChar(s, c) == \E k \in 1..Len(s) : s[k] = c

\* the renderer whose output the text handed to the builder holds: the image
\* reference of the card renderer, the box glyphs, or the ASCII glyphs
RendererUsed ==
    IF HasChar(btext, "![Table](") THEN "cards"
    ELSE IF HasChar(btext, UNICODE_CHARS.topLeft) THEN "unicode"
    ELSE IF HasChar(btext, ASCII_CHARS.topLeft) THEN "ascii"
    ELSE "none"

\* the style preference stored for the sender when the message arrived
StoredStyle ==
    IF Len(env.records) > 0 /\ "style" \in DOMAIN env.records[1]
       /\ env.records[1].style # "null"
    THEN env.records[1].style
    ELSE "unset"

\* the renderer a style selects
RendererOf(style) ==
    IF style = "cards" THEN "cards" ELSE IF style = "ascii" THEN "ascii" ELSE "unicode"

\* a message with a table has been rendered and handed to the builder
TableRendered == mpc = "returned" /\ mret = "builder" /\ Len(mtables) > 0

\* C13: the renderer of a message's tables is the one selected by the
\* sender's stored style preference when it is set, and by the admin table
\* style otherwise: cards, ascii, and unicode for any other value.
C13_RendererSelectedByStyle ==
    TableRendered =>
       RendererUsed = RendererOf(IF StoredStyle # "unset" THEN StoredStyle
                                 ELSE env.table_style)

\* what the handler does: the admin table style alone selects the renderer
RendererByAdminStyle == TableRendered => RendererUsed = RendererOf(env.table_style)

\* the rendered text shows a link list: link lines of the text renderer, or
\* the heading of the card renderer
HasLinkList == HasChar(btext, LINK_MARK) \/ HasChar(btext, "u+00E4")

\* C14: once the sender has run /tableprefs links off, a table with links in
\* a message of theirs is rendered without the link list, whatever the
\* style; once they have run /tableprefs links on, with it.
C14_LinksFollowUserPreference ==
    (TableRendered /\ Len(env.records) > 0) =>
       (HasLinkList <=> env.records[1].showLinksBelow)

\* what the handler does: the card renderer follows the stored preference,
\* the text renderers follow the admin setting
LinksByModeSetting ==
    TableRendered =>
       (HasLinkList <=> IF mode = "cards" THEN userShowLinksBelow
                        ELSE env.show_links_below # "false")

-----------------------------------------------------------------------------
(* Claims on the link list (specification SpecLinks).                      *)

\* a URL as the claims compare it: in lower case, without http:// or
\* https://, without a leading www., without trailing slashes
RECURSIVE WithoutTrailingSlashes(_)
WithoutTrailingSlashes(s) ==
    IF Len(s) > 0 /\ s[Len(s)] = "/" THEN WithoutTrailingSlashes(SubSeq(s, 1, Len(s) - 1))
    ELSE s

Normalized(url) ==
    LET lower == ToLowerCase(url)
        noScheme == IF HasPrefix(lower, HttpsPrefix) THEN SubSeq(lower, 9, Len(lower))
                    ELSE IF HasPrefix(lower, HttpPrefix) THEN SubSeq(lower, 8, Len(lower))
                    ELSE lower
        noWww == IF HasPrefix(noScheme, WwwPrefix) THEN SubSeq(noScheme, 5, Len(noScheme))
                 ELSE noScheme
    IN WithoutTrailingSlashes(noWww)

\* the cells a renderer reads, in its reading order: the text renderer the
\* headers and then the rows, the card renderer the rows
CellsRead ==
    IF fout.renderer = "text" THEN fin.headers \o fin.rows[1] ELSE fin.rows[1]

\* the links a renderer finds in one cell taken alone
LinksOfCellAlone(cell) ==
    IF fout.renderer = "text" THEN extractLinks(cell, <<>>).links
    ELSE cardLinksOfCell(cell, <<>>)

\* the links of every cell read, each found in its cell taken alone and
\* given with its normalized address
LinksByCell ==
    [k \in 1..Len(CellsRead) |->
        [j \in 1..Len(LinksOfCellAlone(CellsRead[k])) |->
            [link |-> LinksOfCellAlone(CellsRead[k])[j],
             key |-> Normalized(LinksOfCellAlone(CellsRead[k])[j].url)]]]

\* whether cell k of the cells cl holds a link to the address n
SeenIn(cl, k, n) == \E j \in 1..Len(cl[k]) : cl[k][j].key = n

\* the first cell that holds a link to the address n
FirstSeenAt(cl, n) ==
    CHOOSE k \in 1..Len(cl) : SeenIn(cl, k, n) /\ \A m \in 1..(k - 1) : ~SeenIn(cl, m, n)

\* the first link to the address n in cell k
FirstLinkIn(cl, k, n) ==
    cl[k][CHOOSE j \in 1..Len(cl[k]) :
             /\ cl[k][j].key = n
             /\ \A m \in 1..(j - 1) : cl[k][m].key # n].link

\* the number of link lines in the rendered output
LinkLinesShown ==
    IF fout.renderer = "text"
    THEN Cardinality({k \in 1..Len(fout.out) : fout.out[k] = LINK_MARK})
    ELSE Cardinality({k \in 1..(Len(fout.out) - 2) :
                         fout.out[k] = NL /\ fout.out[k + 1] = "-" /\ fout.out[k + 2] = " "})

\* the table of the example: the three spellings of one address in a row
IsExampleTable == fin.rows[1] = <<BARE_URL, BARE_WWW_URL, MD_LINK>> /\ fin.headers[1] = <<"h">>

\* the list links, whose entries have the normalized addresses keys, holds
\* one entry for every address seen in the cells cl: the first link to it,
\* in the order in which the addresses were first seen
FirstSeenKept(links, keys, cl) ==
    /\ \A j, k \in 1..Len(links) : j < k => keys[j] # keys[k]
    /\ \A k \in 1..Len(cl) : \A j \in 1..Len(cl[k]) :
          \E e \in 1..Len(links) : keys[e] = cl[k][j].key
    /\ \A e \in 1..Len(links) :
          /\ \E k \in 1..Len(cl) : SeenIn(cl, k, keys[e])
          /\ links[e] = FirstLinkIn(cl, FirstSeenAt(cl, keys[e]), keys[e])
    /\ \A j, k \in 1..Len(links) :
          j < k => FirstSeenAt(cl, keys[j]) <= FirstSeenAt(cl, keys[k])

\* C15: the link list a renderer shows never holds two entries whose URLs
\* are equal after normalization; of the links to one address the one seen
\* first is kept, and the entries stand in the order in which their
\* addresses were first seen; the three spellings of example.com in one row
\* give exactly one entry.
C15_LinkListHasNoDuplicates ==
    fpc = "done" =>
       /\ FirstSeenKept(fout.links,
                        [e \in 1..Len(fout.links) |-> Normalized(fout.links[e].url)],
                        LinksByCell)
       /\ LinkLinesShown = Len(fout.links)
       /\ IsExampleTable =>
             /\ LinkLinesShown = 1
             /\ fout.links = << [text |-> ToLowerCase(SubSeq(BARE_URL, 9, Len(BARE_URL))),
                                 url |-> BARE_URL] >>

\* the table of the example has been rendered by the card renderer
C15_Witness ==
    /\ fpc = "done"
    /\ fout.renderer = "cards"
    /\ IsExampleTable
    /\ Len(fout.links) = 1

\* the markdown links written in a cell, as records [text, url]
MdLinksOf(cell) ==
    { [text |-> mdLinkAt(cell, p).text, url |-> mdLinkAt(cell, p).url] :
         p \in {q \in 1..Len(cell) : mdLinkAt(cell, q).ok} }

\* the markdown links written in the first cell that mentions the address
\* of the link
MdLinksWhereFirstSeen(link) ==
    MdLinksOf(CellsRead[FirstSeenAt(LinksByCell, Normalized(link.url))])

\* every entry whose URL is the target of a markdown link, in the first cell
\* that mentions its address, carries the label of such a markdown link
MarkdownTargetsKeepLabel ==
    \A e \in 1..Len(fout.links) :
       (\E m \in MdLinksWhereFirstSeen(fout.links[e]) : m.url = fout.links[e].url)
          => \E m \in MdLinksWhereFirstSeen(fout.links[e]) :
                m.url = fout.links[e].url /\ m.text = fout.links[e].text

\* C16: in both renderers a URL that is the target of a markdown link is
\* listed with the label of the markdown link, never under a hostname label
\* added by the scan for bare URLs.
C16_MarkdownTargetsKeepLabel == fpc = "done" => MarkdownTargetsKeepLabel

\* what holds of the text renderer, which takes the markdown links of a cell
\* before its bare URLs
TextRendererKeepsLabel ==
    (fpc = "done" /\ fout.renderer = "text") => MarkdownTargetsKeepLabel

\* no entry of the list has an empty URL or a URL that begins with '#'
NoAnchorEntries ==
    \A e \in 1..Len(fout.links) :
       fout.links[e].url # <<>> /\ fout.links[e].url[1] # "#"

\* C17: in both renderers a markdown link whose url is empty or begins
\* with '#' never produces an entry of the link list.
C17_NoAnchorOrEmptyLinks == fpc = "done" => NoAnchorEntries

\* what holds of the card renderer, which skips such links
CardRendererSkipsAnchors == (fpc = "done" /\ fout.renderer = "cards") => NoAnchorEntries

-----------------------------------------------------------------------------
(* Claims on getDisplayWidth and padCell (specification SpecCell).         *)

\* the code points the emoji ranges of getDisplayWidth hold
InEmojiRanges(c) == c \in {"u+2705", "u+1F600", "u+1F517"}

\* the sum over the characters of a text of 2 for a character of the emoji
\* ranges and of 1 for any other character
RECURSIVE CharacterSum(_)
CharacterSum(t) ==
    IF Len(t) = 0 THEN 0
    ELSE (IF InEmojiRanges(t[1]) THEN 2 ELSE 1) + CharacterSum(Tail(t))

\* C20: getDisplayWidth(text) is the sum over the characters of the text of
\* 2 for a character of the emoji ranges and of 1 for any other character;
\* it is the number of characters of a text without emoji; measured again,
\* the text has the same width.
C20_WidthIsSumOverCharacters ==
    fpc = "measured" =>
       /\ fout.width = CharacterSum(fin.text)
       /\ (\A k \in 1..Len(fin.text) : ~InEmojiRanges(fin.text[k])) =>
             fout.width = Len(fin.text)

\* what the function computes: a character outside the emoji ranges counts
\* by its UTF-16 code units, two when it lies outside the basic plane
RECURSIVE CodeUnitSum(_)
CodeUnitSum(t) ==
    IF Len(t) = 0 THEN 0
    ELSE (IF InEmojiRanges(t[1]) THEN 2
          ELSE IF t[1] \in {"u+1D400", "u+1F000"} THEN 2 ELSE 1) + CodeUnitSum(Tail(t))

WidthIsSumOverCodeUnits == fpc = "measured" => fout.width = CodeUnitSum(fin.text)

\* a measurement leaves the width of a text measured before as it was
RemeasuredWidthIsSame ==
    [][(fpc = "measured" /\ fpc' = "measured") => fout'.width = fout.width]_vars

\* n blanks
Blanks(n) == [k \in 1..n |-> " "]

\* the padding of the cell padded, and the part of it in front of the text
PaddingNeeded == fin.columnWidth - fout.width

PaddingInFront ==
    CASE fin.align = "left" -> 0
      [] fin.align = "right" -> PaddingNeeded
      [] fin.align = "center" -> PaddingNeeded \div 2

\* C18: for a cell whose display width is smaller than the column width,
\* padCell returns a string of display width exactly the column width that
\* holds the text unmodified: followed by all the padding for left, preceded
\* by all of it for right, and for center preceded by floor(padding/2) and
\* followed by ceil(padding/2) pad characters.
C18_PadCellFillsColumn ==
    (/\ fpc = "padded"
     /\ fout.width < fin.columnWidth
     /\ fin.align \in {"left", "right", "center"}) =>
       /\ getDisplayWidth(fout.text) = fin.columnWidth
       /\ fout.text = Blanks(PaddingInFront) \o fin.text
                         \o Blanks(PaddingNeeded - PaddingInFront)
       /\ fin.align = "center" =>
             /\ PaddingInFront * 2 <= PaddingNeeded
             /\ (PaddingNeeded - PaddingInFront) = (PaddingNeeded + 1) \div 2

\* a cell with an emoji has been centred with an odd number of blanks
C18_Witness ==
    /\ fpc = "padded"
    /\ fin.align = "center"
    /\ fin.text = <<"u+1F600", "a">>
    /\ fin.columnWidth = 4
    /\ fout.text = <<"u+1F600", "a", " ">>

-----------------------------------------------------------------------------
(* Claims on the shape of the text table (specification SpecShape).        *)

\* the lines of the rendered output
ShapeLines == SplitOn(fout.out, NL)

\* the separator lines of a table of M data rows: the top border, the
\* header separator and the bottom border
SeparatorLineNumbers == {2, 4, 5 + Len(fin.rows)}

\* the border junctions of a line: its glyphs other than the horizontal one
JunctionCount(line) ==
    Cardinality({k \in 1..Len(line) : line[k] # fout.chars.horizontal})

\* the content lines: the lines between two vertical separators
ContentLineNumbers ==
    {k \in 1..Len(ShapeLines) :
        /\ Len(ShapeLines[k]) >= 2
        /\ ShapeLines[k][1] = fout.chars.vertical
        /\ ShapeLines[k][Len(ShapeLines[k])] = fout.chars.vertical}

\* C19 as stated: for N columns and M data rows every separator line of the
\* text table has exactly N border junctions, and the table has exactly M+1
\* content lines with vertical separators.
C19_ShapeAsStated ==
    fpc = "rendered" =>
       /\ \A k \in SeparatorLineNumbers : JunctionCount(ShapeLines[k]) = Len(fin.headers)
       /\ Cardinality(ContentLineNumbers) = Len(fin.rows) + 1

\* the junctions of a separator line: one at each end and one between
\* every two columns, with runs of the horizontal glyph between them
IsSeparatorLine(line, first, inner, last) ==
    /\ line[1] = first
    /\ line[Len(line)] = last
    /\ \A k \in 2..(Len(line) - 1) : line[k] \in {inner, fout.chars.horizontal}
    /\ Cardinality({k \in 2..(Len(line) - 1) : line[k] = inner /\ inner # fout.chars.horizontal})
          = Len(fin.headers) - 1

\* C19: for N columns and M data rows every separator line of the text
\* table (top border, header separator, bottom border) has exactly N+1
\* border junctions, one at each end and N-1 between the columns, and the
\* table has exactly M+1 content lines with vertical separators: the header
\* line and one line per data row.
C19_TableShape ==
    fpc = "rendered" =>
       /\ \A k \in SeparatorLineNumbers : JunctionCount(ShapeLines[k]) = Len(fin.headers) + 1
       /\ IsSeparatorLine(ShapeLines[2], fout.chars.topLeft, fout.chars.teeDown,
                          fout.chars.topRight)
       /\ IsSeparatorLine(ShapeLines[4], fout.chars.teeRight, fout.chars.cross,
                          fout.chars.teeLeft)
       /\ IsSeparatorLine(ShapeLines[5 + Len(fin.rows)], fout.chars.bottomLeft,
                          fout.chars.teeUp, fout.chars.bottomRight)
       /\ ContentLineNumbers = {3} \cup (5..(4 + Len(fin.rows)))
       /\ Cardinality(ContentLineNumbers) = Len(fin.rows) + 1

\* a table of two columns and two data rows has been rendered with the box
\* glyphs and with its link lines
C19_Witness ==
    /\ fpc = "rendered"
    /\ Len(fin.headers) = 2
    /\ Len(fin.rows) = 2
    /\ fout.chars = UNICODE_CHARS
    /\ Includes(fout.out, LINK_MARK)
    /\ Len(ShapeLines) > 8

-----------------------------------------------------------------------------
(* Claims on the card text (specification SpecLinks).                      *)

\* the lines of the card text
CardLines == SplitOn(fout.out, NL)

\* a bullet of the link list
BulletOf(link) == <<"-", " ", "[">> \o link.text \o <<"]", "(">> \o link.url \o <<")">>

\* the card text is the heading, one bullet per link of the list, a blank
\* line, the usage hint in italics, a blank line and the image reference
IsLinksThenImage(ls, links, image) ==
    /\ Len(ls) = Len(links) + 5
    /\ ls[1] = LINKS_HEADING
    /\ \A k \in 1..Len(links) : ls[k + 1] = BulletOf(links[k])
    /\ ls[Len(links) + 2] = <<>>
    /\ ls[Len(links) + 3] = <<"_">> \o getHelpText("en", TRUE) \o <<"_">>
    /\ ls[Len(links) + 4] = <<>>
    /\ ls[Len(links) + 5] = image

-----------------------------------------------------------------------------
(* Claims on parseFormattedText (specification SpecRuns).                  *)

\* the cell with every markdown link replaced by its label
LinksAsLabels(t) == replaceMdLinks(t, 1, <<>>, <<>>).text

IsPlainRun(r) == ~r.bold /\ ~r.italic /\ ~r.code

\* the ways a run can have been written: a plain run as it is, a bold run
\* between doubled asterisks or underscores, an italic run between single
\* ones, a code run between grave accents
WrittenAs(r) ==
    IF r.bold /\ ~r.italic /\ ~r.code
    THEN { <<d, d>> \o r.text \o <<d, d>> : d \in {"*", "_"} }
    ELSE IF r.italic /\ ~r.bold /\ ~r.code
    THEN { <<d>> \o r.text \o <<d>> : d \in {"*", "_"} }
    ELSE IF r.code /\ ~r.bold /\ ~r.italic
    THEN { <<GRAVE>> \o r.text \o <<GRAVE>> }
    ELSE IF IsPlainRun(r) THEN { r.text }
    ELSE {}

\* the texts a sequence of runs can have been written as
RECURSIVE WrittenTexts(_)
WrittenTexts(runs) ==
    IF Len(runs) = 0 THEN { <<>> }
    ELSE { w \o rest : w \in WrittenAs(runs[1]), rest \in WrittenTexts(Tail(runs)) }

\* the texts of the runs, concatenated
RECURSIVE RunTextsJoined(_)
RunTextsJoined(runs) ==
    IF Len(runs) = 0 THEN <<>> ELSE runs[1].text \o RunTextsJoined(Tail(runs))

\* C24: parseFormattedText returns a non-empty sequence of runs that, in
\* their order and with the delimiters of the bold, italic and code runs put
\* back, spell the cell with every markdown link replaced by its label: the
\* concatenated text is that cell without the delimiters of the matched
\* spans, the text outside the spans stands unchanged in plain runs, and a
\* cell without a match is a single plain run.
C24_RunsSpellTheCell ==
    fpc = "parsed" =>
       /\ Len(fout) >= 1
       /\ LinksAsLabels(fin) \in WrittenTexts(fout)
       /\ \A k \in 1..Len(fout) : ~IsPlainRun(fout[k]) => Len(fout[k].text) >= 1
       /\ \A k \in 1..(Len(fout) - 1) : ~(IsPlainRun(fout[k]) /\ IsPlainRun(fout[k + 1]))
       /\ (\A k \in 1..Len(fout) : IsPlainRun(fout[k])) =>
             fout = <<Run(LinksAsLabels(fin), "plain")>>
       /\ (\A k \in 1..Len(fin) : fin[k] \notin {"*", "_", GRAVE}) =>
             RunTextsJoined(fout) = LinksAsLabels(fin)

\* a cell with a link between plain text and an italic span has been parsed
\* into a plain run and an italic run
C24_Witness ==
    /\ fpc = "parsed"
    /\ fin = <<"x", "[", "a", "]", "(", "b", ")", "_", "c", "_">>
    /\ fout = <<Run(<<"x", "a">>, "plain"), Run(<<"c">>, "italic")>>

-----------------------------------------------------------------------------
(* Claims on the sizes of the card image (specification SpecCardSize).     *)

\* the plain text of a cell: its runs, concatenated
PlainLength(cell) == stringLength(RunTextsJoined(parseFormattedText(cell)))

\* the largest plain-text length among the header and the cells of column k
LargestPlainLength(k) ==
    LET lengths == {PlainLength(fin.headers[k])}
                      \cup {PlainLength(fin.rows[r][k]) : r \in 1..Len(fin.rows)}
    IN CHOOSE l \in lengths : \A m \in lengths : l >= m

\* C22 as stated: the pixel width of a column is max(9 * L, 80) plus the
\* fixed padding (the padding of one side or of both), for L the largest
\* plain-text length of the column, and the row height is
\* fontSize + 2 * padding + 4.
C22_WidthAsStated ==
    fpc = "sized" =>
       /\ \A k \in 1..Len(fin.headers) :
             \E padding \in {pad, 2 * pad} :
                fout.cw[k] = Max(9 * LargestPlainLength(k), 80) + padding
       /\ fout.rh = fs + 2 * pad + 4

\* C22: the pixel width of a column is max(9 * L + 2 * padding, 80), for L
\* the largest plain-text length (run texts concatenated) among the
\* column's header and cells: the padding is inside the minimum of 80; the
\* row height is the constant fontSize + 2 * padding + 4.
C22_CardColumnWidth ==
    fpc = "sized" =>
       /\ Len(fout.cw) = Len(fin.headers)
       /\ \A k \in 1..Len(fin.headers) :
             fout.cw[k] = Max(9 * LargestPlainLength(k) + 2 * pad, 80)
       /\ fout.rh = fs + 2 * pad + 4
       /\ fout.rh = 38

\* a column whose bold cell of seven letters is its longest text is 83
\* wide, next to a column at the minimum
C22_Witness ==
    /\ fpc = "sized"
    /\ fin.headers = << <<"h">>, <<"h">> >>
    /\ fin.rows[1][1] = <<"*", "*">> \o Repeat("a", 7) \o <<"*", "*">>
    /\ fout.cw = <<83, 80>>

-----------------------------------------------------------------------------
(* Claims on the cells the renderers read (specification SpecLinks).       *)

\* the addresses of the links of the list
ListedAddresses == {Normalized(fout.links[e].url) : e \in 1..Len(fout.links)}

\* the addresses of the links the renderer finds in header cell k taken alone
HeaderAddresses(k) ==
    {Normalized(LinksOfCellAlone(fin.headers[k])[j].url) :
        j \in 1..Len(LinksOfCellAlone(fin.headers[k]))}

HeaderLinksListed == \A k \in 1..Len(fin.headers) : HeaderAddresses(k) \subseteq ListedAddresses

\* C23: the card renderer collects links from the same cells as the text
\* renderer: a markdown link or bare URL in a header cell is in the link
\* list of either renderer.
C23_HeaderLinksInBothRenderers == fpc = "done" => HeaderLinksListed

\* what holds of the text renderer, which reads the headers and the rows
TextRendererReadsHeaders == (fpc = "done" /\ fout.renderer = "text") => HeaderLinksListed

-----------------------------------------------------------------------------
(* Claims on the scan loop (specification Spec).                           *)

\* no line of the text starts a region: a candidate, a separator row and a
\* candidate row in a row
NonTabular ==
    \A p \in 0..(Len(lines) - 1) :
       ~(CandidateAt(p) /\ SeparatorAt(p + 1) /\ CandidateAt(p + 2))

\* the line index after the iteration of the scan loop at index k
IndexAfter(k) == scanStep(lines, k, tables).i

\* C25: parseMarkdownTable terminates on every input: the line index never
\* passes the number of lines, and every iteration of the scan loop
\* increases it, by one on a rejected position and to the first line after
\* the consumed rows otherwise; the scan of an empty or non-tabular text
\* returns the empty list.
C25_ScanLoopAdvances ==
    /\ i <= Len(lines)
    /\ (pc = "scan" /\ i < Len(lines)) =>
          /\ IndexAfter(i) > i
          /\ IndexAfter(i) <= Len(lines)
          /\ ~(CandidateAt(i) /\ SeparatorAt(i + 1)) => IndexAfter(i) = i + 1
          /\ (CandidateAt(i) /\ SeparatorAt(i + 1)) =>
                /\ IndexAfter(i) >= i + 2
                /\ \A k \in (i + 2)..(IndexAfter(i) - 1) : CandidateAt(k)
                /\ ~CandidateAt(IndexAfter(i))
    /\ pc = "done" =>
          /\ i = Len(lines)
          /\ (text = <<>> \/ NonTabular) => tables = <<>>

\* the scan of a blank line followed by a table of one row has returned
C25_Witness ==
    /\ pc = "done"
    /\ Len(lines) = 4
    /\ lines[1] = <<>>
    /\ Len(tables) = 1
    /\ tables[1].start = 1

-----------------------------------------------------------------------------
(* Claims on the widths of the text table (specification SpecShape).       *)

\* a cell after link substitution
Substituted(cell) == extractLinks(cell, <<>>).text

\* the measured width of column k: the largest display width among its
\* header and its cells after link substitution
MeasuredWidth(k) ==
    LET shown == {Substituted(fin.headers[k])}
                    \cup {Substituted(fin.rows[r][k]) : r \in 1..Len(fin.rows)}
    IN CHOOSE w \in {getDisplayWidth(c) : c \in shown} :
          \A c \in shown : getDisplayWidth(c) <= w

RECURSIVE MeasuredWidthsUpTo(_)
MeasuredWidthsUpTo(n) == IF n = 0 THEN 0 ELSE MeasuredWidth(n) + MeasuredWidthsUpTo(n - 1)

\* the parts of a line between its first and last glyph, split at a glyph
PartsBetween(line, glyph) == SplitOn(SubSeq(line, 2, Len(line) - 1), glyph)

\* C26: in the text table each column is as wide as the widest of its header
\* and cells after link substitution: the borders draw it with that many
\* horizontal glyphs and two more, the content lines with a cell of that
\* display width between two blanks; and the top border, the header line,
\* the header separator, every data line and the bottom border have the
\* same display width, the sum of the column widths plus 3*N + 1 for N
\* columns.
C26_LinesHaveOneWidth ==
    fpc = "rendered" =>
       LET N == Len(fin.headers)
           M == Len(fin.rows)
           ls == ShapeLines
       IN /\ \A n \in {2, 4, 5 + M} :
                LET parts == PartsBetween(ls[n], IF n = 2 THEN fout.chars.teeDown
                                                 ELSE IF n = 4 THEN fout.chars.cross
                                                 ELSE fout.chars.teeUp)
                IN /\ Len(parts) = N
                   /\ \A k \in 1..N : Len(parts[k]) = MeasuredWidth(k) + 2
          /\ \A n \in {3} \cup (5..(4 + M)) :
                LET parts == PartsBetween(ls[n], fout.chars.vertical)
                IN /\ Len(parts) = N
                   /\ \A k \in 1..N : getDisplayWidth(parts[k]) = MeasuredWidth(k) + 2
          /\ \A n \in 2..(5 + M) :
                getDisplayWidth(ls[n]) = MeasuredWidthsUpTo(N) + 3 * N + 1

\* a table whose second header, a link with an emoji, is wider than the
\* cells below it has been rendered
C26_Witness ==
    /\ fpc = "rendered"
    /\ Len(fin.headers) = 2
    /\ Len(fin.rows) = 2
    /\ fin.headers[2] # <<"a">>
    /\ \A r \in 1..2 : fin.rows[r][2] = <<"a">>
    /\ fin.rows[1][1] # <<"a">>
    /\ MeasuredWidth(1) = 3
    /\ MeasuredWidth(2) = 3

-----------------------------------------------------------------------------
(* Claims on overlapping invocations of /tableprefs (specification         *)
(* SpecPrefs).                                                              *)

\* the record carries what the update of invocation c has set
Reflects(record, c) ==
    IF settingOf(c.args) = LINKS
    THEN record.showLinksBelow = (valueOf(c.args) = ON)
    ELSE record.style = styleName(valueOf(c.args))

\* the field the update of invocation c does not set is, in the object it
\* is about to save, as the store holds it now: no update made since the
\* read is undone by the save
KeepsOtherField(c) ==
    LET stored == getUserPrefs(store[c.user])
    IN build = "style" =>
          IF settingOf(c.args) = LINKS THEN c.prefs.style = stored.style
          ELSE c.prefs.showLinksBelow = stored.showLinksBelow

\* both slots hold a finished update of the same user
TwoUpdatesDone ==
    /\ \A s \in Slots : cmds[s].pc = "done" /\ cmds[s].wrote
    /\ cmds[1].user = cmds[2].user

\* C27: when two updates of the same user run, interleaved at their await
\* points (read, remove, create) or not, the store is as after the two in
\* some serial order: once both have finished the user has exactly one
\* record, and both updates are in it, an update saving the other field
\* as the store holds it and the record showing the later update.
C27_OverlappingUpdatesSerialize ==
    /\ \A s \in Slots : cmds[s].pc = "remove" => KeepsOtherField(cmds[s])
    /\ TwoUpdatesDone =>
          /\ Len(store[cmds[1].user]) = 1
          /\ \E s \in Slots : Reflects(store[cmds[1].user][1], cmds[s])

\* the same for updates that did not overlap
UpdatesInTurnSerialize == ~overlap => C27_OverlappingUpdatesSerialize

\* two updates of one user have finished without an overlap
UpdatesInTurnDone == ~overlap /\ TwoUpdatesDone

-----------------------------------------------------------------------------
(* Claims on the frame of the verbs of /tableprefs (specification          *)
(* SpecSender).                                                             *)

\* the showLinksBelow the handler uses for the messages of a user with
\* these records: that of the first record, or the admin default
ShowLinksUsedFor(records) ==
    IF Len(records) > 0 THEN records[1].showLinksBelow
    ELSE env.default_show_links_below # "false"

\* the style of a user with these records: that of the first record, or
\* none
StyleOfUser(records) == IF Len(records) > 0 THEN records[1].style ELSE "null"

\* the update in the slot has read the preferences and not yet removed the
\* record: the store is as it was when the command was given
AboutToSave(c, verb) == c.pc = "remove" /\ settingOf(c.args) = verb

\* the update in the slot has created its record
HasSaved(c, verb) == c.pc = "notify" /\ settingOf(c.args) = verb

\* /tableprefs links leaves the style of the user as it was
LinksVerbKeepsStyle ==
    build = "style" =>
       /\ AboutToSave(cmds[1], LINKS) =>
             cmds[1].prefs.style = StyleOfUser(store[cmds[1].user])
       /\ HasSaved(cmds[1], LINKS) =>
             StyleOfUser(store[cmds[1].user]) = cmds[1].prefs.style

\* /tableprefs style leaves the showLinksBelow used for the user as it was
StyleVerbKeepsLinks ==
    /\ AboutToSave(cmds[1], STYLE) =>
          cmds[1].prefs.showLinksBelow = ShowLinksUsedFor(store[cmds[1].user])
    /\ HasSaved(cmds[1], STYLE) =>
          ShowLinksUsedFor(store[cmds[1].user]) = cmds[1].prefs.showLinksBelow

\* C28: /tableprefs style never changes the showLinksBelow the handler uses
\* for the user's messages, and /tableprefs links never changes the user's
\* style: what the command saves holds, in the field of the other verb,
\* the value in use when the command was given; also for a user without a
\* record, under either admin default.
C28_VerbsKeepOtherPreference == StyleVerbKeepsLinks /\ LinksVerbKeepsStyle

\* the same for a user who has a record, or under the admin default true
StyleVerbKeepsStoredLinks ==
    (env.default_show_links_below # "false" \/ cmds[1].wrote \/ store[cmds[1].user] # <<>>)
       => StyleVerbKeepsLinks

\* a user with a record that hides the links has set a style
StyleSetOverRecord ==
    /\ HasSaved(cmds[1], STYLE)
    /\ env.default_show_links_below = "false"
    /\ store[cmds[1].user] = << [showLinksBelow |-> FALSE, style |-> "ascii"] >>

-----------------------------------------------------------------------------
(* Claims on messages without a table (specification SpecMsg).             *)

\* the text of the message the handler returns: that of the message it was
\* given, or the text set in the builder
ReturnedText == IF mret = "message" THEN mtext ELSE btext

\* the handler has returned and found no table in the normalized text
ReturnedWithoutTable ==
    /\ mpc = "returned"
    /\ mtext # <<>>
    /\ mtables = <<>>

\* C29: when no table region is recognized, after the normalization of
\* pasted tab-separated lines, the handler returns the message it was
\* given: the text is the original one, not the normalized text, not
\* collapsed, not trimmed; nothing is set in the builder and the link
\* preview flag is untouched.
C29_NoTableReturnsOriginal ==
    ReturnedWithoutTable =>
       /\ mret = "message"
       /\ ReturnedText = mtext
       /\ btext = <<>>
       /\ bparseUrls = "unset"

\* a message has been returned whose normalized text differs from it, and
\* which collapsing and trimming would have changed
C29_Witness ==
    /\ ReturnedWithoutTable
    /\ Includes(mtext, TAB)
    /\ processedText # mtext
    /\ Trim(collapseNewlines(mtext)) # mtext
    /\ collapseNewlines(mtext) # mtext
    /\ env.disable_link_previews = "true"

-----------------------------------------------------------------------------
(* Claims on pasted text that is a pipe table already (specification       *)
(* SpecTsv).                                                                *)

\* line.trim() starts or ends with '|'
HasPipeStructure(line) ==
    LET trimmed == Trim(line)
    IN Len(trimmed) > 0 /\ (trimmed[1] = "|" \/ trimmed[Len(trimmed)] = "|")

\* the text is a run of two or more lines that start or end with '|' and
\* hold a tab inside a cell
IsPipeTableWithTabs ==
    /\ Len(tlines) >= 2
    /\ \A k \in 1..Len(tlines) : HasPipeStructure(tlines[k]) /\ Includes(tlines[k], TAB)

\* C30: convertTsvToMarkdown does not rewrite text that already looks like a
\* pipe table: a run of lines each starting or ending with '|' and holding
\* tabs inside cells is returned unchanged.
C30_PipeTablesLeftUnchanged ==
    (TsvConverted /\ IsPipeTableWithTabs) => tout = ttext

\* a single line of a pipe table with a tab in a cell is returned unchanged
SinglePipeLineUnchanged ==
    (TsvConverted /\ Len(tlines) = 1 /\ HasPipeStructure(tlines[1])) => tout = ttext

====
